---- MODULE Spec2Model ----
(***************************************************************************)
(* A model of the heterogeneous message-passing and sampling machinery of  *)
(* paddle_geometric: HeteroConv (nn/conv/hetero_conv.py), the helpers of   *)
(* utils/hetero.py, the CSC conversion of sampler/utils.py, the rooted     *)
(* subgraph transforms of transforms/rooted_subgraph.py, ParameterDict     *)
(* (nn/parameter_dict.py) and DeepGCNLayer (nn/models/deepgcn.py).         *)
(*                                                                         *)
(* The library is a collection of functions and small objects.  Each       *)
(* component has its own variables and its own specification: the caller   *)
(* picks the inputs (\E over bounded sets), and one action models one      *)
(* whole call.  Python's None is modelled by a flag next to the value, a   *)
(* raised exception by the status of the call.                             *)
(***************************************************************************)
EXTENDS Integers, Sequences, FiniteSets, TLC

VARIABLES
    hc_pc,      \* HeteroConv: "new", "ready" (constructed), "raised", "done"
    hc_convs,   \* HeteroConv: the convs argument / self.convs (ordered)
    hc_aggr,    \* HeteroConv: self.aggr
    hc_in,      \* HeteroConv.forward: the arguments of the call
    hc_out,     \* HeteroConv.forward: its outcome
    csc_in,     \* to_csc: the arguments of the call
    csc_out,    \* to_csc: its outcome
    bip_in,     \* construct_bipartite_edge_index: the arguments of the call
    bip_out,    \* construct_bipartite_edge_index: its outcome
    rs_hops,    \* RootedEgoNets: self.num_hops (-1: not constructed)
    rs_list,    \* the RootedSubgraphData objects produced by the transform
    rs_batch,   \* the batch collated from rs_list
    mp_in,      \* RootedSubgraph.map: the arguments of the call
    mp_out,     \* RootedSubgraph.map: its outcome
    md_in,      \* RootedSubgraphData.map_data: the object it is called on
    md_out,     \* RootedSubgraphData.map_data: its outcome
    rw_in,      \* RootedRWSubgraph: the transform and the graph given to it
    rw_out,     \* RootedRWSubgraph: the walks drawn and the object returned
    pd_in,      \* ParameterDict: the last operation and its key
    pd_out,     \* ParameterDict: the stored entries and what was read back
    dg_in,      \* DeepGCNLayer: the layer and the arguments of forward
    dg_out      \* DeepGCNLayer: the outcome of the constructor and of forward

hcVars  == <<hc_pc, hc_convs, hc_aggr, hc_in, hc_out>>
cscVars == <<csc_in, csc_out>>
bipVars == <<bip_in, bip_out>>
rsVars  == <<rs_hops, rs_list, rs_batch>>
mpVars  == <<mp_in, mp_out>>
mdVars  == <<md_in, md_out>>
rwVars  == <<rw_in, rw_out>>
pdVars  == <<pd_in, pd_out>>
dgVars  == <<dg_in, dg_out>>
vars    == <<hc_pc, hc_convs, hc_aggr, hc_in, hc_out, csc_in, csc_out,
             bip_in, bip_out, rs_hops, rs_list, rs_batch, mp_in, mp_out,
             md_in, md_out, rw_in, rw_out, pd_in, pd_out, dg_in, dg_out>>

(***************************************************************************)
(* Bounds and generic helpers                                              *)
(***************************************************************************)
\* the largest number of relations of a HeteroConv
MaxConvs == 2

SeqsUpTo(S, n) == UNION {[1..k -> S] : k \in 0..n}

RECURSIVE SeqSum(_)
SeqSum(s) == IF s = <<>> THEN 0 ELSE Head(s) + SeqSum(Tail(s))

RECURSIVE SeqMin(_)
SeqMin(s) ==
    IF Len(s) = 1 THEN s[1]
    ELSE LET m == SeqMin(Tail(s)) IN IF Head(s) <= m THEN Head(s) ELSE m

RECURSIVE SeqMax(_)
SeqMax(s) ==
    IF Len(s) = 1 THEN s[1]
    ELSE LET m == SeqMax(Tail(s)) IN IF Head(s) >= m THEN Head(s) ELSE m

RECURSIVE Flatten(_)
Flatten(ss) == IF ss = <<>> THEN <<>> ELSE Head(ss) \o Flatten(Tail(ss))

(***************************************************************************)
(* HeteroConv: types                                                       *)
(***************************************************************************)
NodeTypes == {"a", "b"}

\* An edge type is (src, rel, dst).  Three of the four end in "a".
EdgeTypes ==
    { <<"a", "r", "a">>, <<"b", "r", "a">>, <<"a", "q", "a">>, <<"a", "r", "b">> }

\* Keys of the argument dictionaries: a node type is the 1-tuple of its name.
NodeKey(t) == <<t>>
NodeKeys == {NodeKey(t) : t \in NodeTypes}

\* The value of the module attribute add_self_loops ("absent": no attribute).
AttrValues == {"absent", "False", "True", "0", "1"}
Truthy(v) == v \in {"True", "1"}

\* The outputs a conv can produce: tensors of shape [2, 1].
ConvOutputs == { << <<0>>, <<1>> >>, << <<1>>, <<1>> >>, << <<2>>, <<0>> >> }

Aggrs == {"sum", "mean", "min", "max", "cat", "None"}

\* Keyword names, as sequences of characters.
DictSuffix == <<"_", "d", "i", "c", "t">>
KwNames ==
    { <<"e">> \o DictSuffix, <<"w">> \o DictSuffix, <<"x">>,
      <<"e", "_", "d", "i", "c">> }

(***************************************************************************)
(* utils/hetero.py: check_add_self_loops                                   *)
(***************************************************************************)
\* getattr(module, 'add_self_loops', False)
GetAddSelfLoops(module) ==
    IF module.asl = "absent" THEN "False" ELSE module.asl

\* a mutant: the source type is compared with the relation name
check_add_self_loops_rel(module, edge_types) ==
    /\ \E i \in 1..Len(edge_types) : edge_types[i][1] # edge_types[i][2]
    /\ Truthy(GetAddSelfLoops(module))

\* TRUE iff the call raises ValueError
check_add_self_loops(module, edge_types) ==
    LET is_bipartite ==
            \E i \in 1..Len(edge_types) :
                edge_types[i][1] # edge_types[i][Len(edge_types[i])]
    IN  is_bipartite /\ Truthy(GetAddSelfLoops(module))

(***************************************************************************)
(* nn/conv/hetero_conv.py: group                                           *)
(***************************************************************************)
\* paddle.stack(xs, axis=1) of tensors of shape [N, F]: shape [N, R, F]
StackAxis1(xs) ==
    [n \in 1..Len(xs[1]) |-> [r \in 1..Len(xs) |-> xs[r][n]]]

\* paddle.stack(xs, axis=0): shape [R, N, F]
StackAxis0(xs) == xs

\* paddle.concat(xs, axis=-1): shape [N, R * F]
ConcatLast(xs) ==
    [n \in 1..Len(xs[1]) |-> Flatten([r \in 1..Len(xs) |-> xs[r][n]])]

\* paddle.<aggr>(out, axis=0) for a tensor of shape [R, N, F].  The mean of R
\* values is the fraction <<sum, R>>.
ReduceAxis0(aggr, out) ==
    [n \in 1..Len(out[1]) |->
        [f \in 1..Len(out[1][n]) |->
            LET col == [r \in 1..Len(out) |-> out[r][n][f]]
            IN  CASE aggr = "sum"  -> SeqSum(col)
                  [] aggr = "mean" -> <<SeqSum(col), Len(col)>>
                  [] aggr = "min"  -> SeqMin(col)
                  [] aggr = "max"  -> SeqMax(col)]]

\* a mutant: aggr=None stacks along axis 0
group_axis0(xs, aggr) ==
    IF aggr = "None" THEN StackAxis0(xs)
    ELSE IF Len(xs) = 1 THEN xs[1]
    ELSE IF aggr = "cat" THEN ConcatLast(xs)
    ELSE ReduceAxis0(aggr, StackAxis0(xs))

\* group is only called with a non-empty list (line 146)
group(xs, aggr) ==
    IF aggr = "None" THEN StackAxis1(xs)
    ELSE IF Len(xs) = 1 THEN xs[1]
    ELSE IF aggr = "cat" THEN ConcatLast(xs)
    ELSE ReduceAxis0(aggr, StackAxis0(xs))

(***************************************************************************)
(* nn/conv/hetero_conv.py: HeteroConv.__init__                             *)
(***************************************************************************)
\* A module of convs: its add_self_loops attribute and the tensor it returns
\* when called.
Modules(Attrs, Outs) == [et : EdgeTypes, asl : Attrs, out : Outs]

\* The convs dictionaries of at most MaxConvs relations (keys are distinct).
ConvDicts(Attrs, Outs) ==
    { c \in SeqsUpTo(Modules(Attrs, Outs), MaxConvs) :
        \A i, j \in 1..Len(c) : i # j => c[i].et # c[j].et }

\* lines 53-54: TRUE iff the loop over convs.items() raises ValueError
RECURSIVE InitLoopRaises(_, _)
InitLoopRaises(convs, i) ==
    IF i > Len(convs) THEN FALSE
    ELSE IF check_add_self_loops(convs[i], <<convs[i].et>>) THEN TRUE
    ELSE InitLoopRaises(convs, i + 1)

NoCall == [status |-> "none", out_dict |-> <<>>, calls |-> <<>>]
NoArgs == [args_dict |-> <<>>, kwargs_dict |-> <<>>]

HeteroConv__init__(ConvInputs, AggrInputs) ==
    /\ hc_pc = "new"
    /\ \E convs \in ConvInputs, aggr \in AggrInputs :
          /\ hc_convs' = convs
          /\ hc_aggr' = aggr
          /\ hc_pc' = IF InitLoopRaises(convs, 1) THEN "raised" ELSE "ready"
    /\ UNCHANGED <<hc_in, hc_out>>

(***************************************************************************)
(* nn/conv/hetero_conv.py: HeteroConv.forward                              *)
(***************************************************************************)
NoneKey == <<"None">>

\* value_dict.get(t, None)
DictGet(keys, t) == IF NodeKey(t) \in keys THEN NodeKey(t) ELSE NoneKey

\* value_dict[key] of the dictionary id: the value is named by its origin
Value(id, key) == [tag |-> "value", id |-> id, a |-> key, b |-> <<>>]
Pair(id, a, b) == [tag |-> "pair", id |-> id, a |-> a, b |-> b]

\* lines 103-114 and 125-134: what one dictionary contributes to the call of
\* the relation edge_type
Dispatch(id, keys, edge_type) ==
    LET src == edge_type[1]
        dst == edge_type[3]
    IN  IF edge_type \in keys
        THEN [some |-> TRUE, edge |-> TRUE, val |-> Value(id, edge_type)]
        ELSE IF src = dst /\ NodeKey(src) \in keys
        THEN [some |-> TRUE, edge |-> FALSE, val |-> Value(id, NodeKey(src))]
        ELSE IF NodeKey(src) \in keys \/ NodeKey(dst) \in keys
        THEN [some |-> TRUE, edge |-> FALSE,
              val |-> Pair(id, DictGet(keys, src), DictGet(keys, dst))]
        ELSE [some |-> FALSE, edge |-> FALSE, val |-> Pair(id, NoneKey, NoneKey)]

\* lines 101-114: the loop over args_dict; the i-th positional dictionary has
\* the id i
RECURSIVE ArgsLoop(_, _, _, _)
ArgsLoop(args_dict, edge_type, i, acc) ==
    IF i > Len(args_dict) THEN acc
    ELSE LET d == Dispatch(i, args_dict[i].keys, edge_type)
         IN  ArgsLoop(args_dict, edge_type, i + 1,
                 [args |-> IF d.some THEN Append(acc.args, d.val) ELSE acc.args,
                  has  |-> acc.has \/ d.edge])

\* arg.endswith("_dict")
EndsWith(s, suf) ==
    /\ Len(s) >= Len(suf)
    /\ SubSeq(s, Len(s) - Len(suf) + 1, Len(s)) = suf

\* kwargs[arg] = val
DictSet(d, name, val) ==
    IF \E j \in 1..Len(d) : d[j].name = name
    THEN [j \in 1..Len(d) |->
            IF d[j].name = name THEN [name |-> name, val |-> val] ELSE d[j]]
    ELSE Append(d, [name |-> name, val |-> val])

\* lines 116-134: the loop over kwargs_dict.items(); a keyword dictionary has
\* its name as id
RECURSIVE KwargsLoop(_, _, _, _)
KwargsLoop(kwargs_dict, edge_type, i, acc) ==
    IF i > Len(kwargs_dict) THEN acc
    ELSE IF ~EndsWith(kwargs_dict[i].name, DictSuffix)
    THEN [acc EXCEPT !.raised = TRUE]
    ELSE LET name == kwargs_dict[i].name
             arg == SubSeq(name, 1, Len(name) - 5)
             d == Dispatch(name, kwargs_dict[i].keys, edge_type)
         IN  KwargsLoop(kwargs_dict, edge_type, i + 1,
                 [raised |-> FALSE,
                  kwargs |-> IF d.some THEN DictSet(acc.kwargs, arg, d.val)
                             ELSE acc.kwargs,
                  has    |-> acc.has \/ d.edge])

\* lines 141-144: out_dict[dst] gets out
ListsAdd(lists, dst, out) ==
    IF \E j \in 1..Len(lists) : lists[j].key = dst
    THEN [j \in 1..Len(lists) |->
            IF lists[j].key = dst
            THEN [key |-> dst, xs |-> Append(lists[j].xs, out)]
            ELSE lists[j]]
    ELSE Append(lists, [key |-> dst, xs |-> <<out>>])

\* line 139: the call of the conv; the conv is a black box returning its
\* tensor
ConvCall(module, args, kwargs) == module.out

\* lines 96-144: the loop over self.convs.items(), from relation i on
RECURSIVE ForwardLoop(_, _, _, _)
ForwardLoop(convs, inp, i, st) ==
    IF i > Len(convs) THEN st
    ELSE LET edge_type == convs[i].et
             a == ArgsLoop(inp.args_dict, edge_type, 1,
                           [args |-> <<>>, has |-> FALSE])
             k == KwargsLoop(inp.kwargs_dict, edge_type, 1,
                           [raised |-> FALSE, kwargs |-> <<>>, has |-> a.has])
         IN  IF k.raised THEN [st EXCEPT !.status = "ValueError"]
             ELSE IF ~k.has THEN ForwardLoop(convs, inp, i + 1, st)
             ELSE ForwardLoop(convs, inp, i + 1,
                     [status |-> st.status,
                      lists  |-> ListsAdd(st.lists, edge_type[3],
                                     ConvCall(convs[i], a.args, k.kwargs)),
                      calls  |-> Append(st.calls,
                                     [et |-> edge_type, args |-> a.args,
                                      kwargs |-> k.kwargs])])

\* lines 94-149: the outcome of forward(*args_dict, **kwargs_dict)
ForwardResult(convs, aggr, inp) ==
    LET st == ForwardLoop(convs, inp, 1,
                  [status |-> "ok", lists |-> <<>>, calls |-> <<>>])
    IN  IF st.status = "ValueError"
        THEN [status |-> "ValueError", out_dict |-> <<>>, calls |-> st.calls]
        ELSE [status |-> "ok",
              out_dict |-> [j \in 1..Len(st.lists) |->
                              [key |-> st.lists[j].key,
                               val |-> group(st.lists[j].xs, aggr)]],
              calls |-> st.calls]

HeteroConv_forward(FwdInputs) ==
    /\ hc_pc = "ready"
    /\ \E inp \in FwdInputs :
          /\ hc_in' = inp
          /\ hc_out' = ForwardResult(hc_convs, hc_aggr, inp)
    /\ hc_pc' = "done"
    /\ UNCHANGED <<hc_convs, hc_aggr>>

(***************************************************************************)
(* HeteroConv: the inputs of the callers and the specifications            *)
(***************************************************************************)
InitHC ==
    /\ hc_pc = "new"
    /\ hc_convs = <<>>
    /\ hc_aggr = "sum"
    /\ hc_in = NoArgs
    /\ hc_out = NoCall

IdleHC ==
    /\ hc_pc = "idle"
    /\ hc_convs = <<>>
    /\ hc_aggr = "sum"
    /\ hc_in = NoArgs
    /\ hc_out = NoCall

IdleCsc == csc_in = "idle" /\ csc_out = "idle"
IdleBip == bip_in = "idle" /\ bip_out = "idle"
IdleRs  == rs_hops = -1 /\ rs_list = <<>> /\ rs_batch = "idle"
IdleMp  == mp_in = "idle" /\ mp_out = "idle"
IdleMd  == md_in = "idle" /\ md_out = "idle"
IdleRw  == rw_in = "idle" /\ rw_out = "idle"
IdlePd  == pd_in = "idle" /\ pd_out = "idle"
IdleDg  == dg_in = "idle" /\ dg_out = "idle"

\* forward(x_dict, edge_index_dict): all node types have features, every
\* relation has edges
FwdPlain ==
    { [args_dict |-> << [keys |-> NodeKeys], [keys |-> EdgeTypes] >>,
       kwargs_dict |-> <<>>] }

\* forward(x_dict, edge_index_dict[, w_dict=...]): any set of relations has
\* edges; an edge-level keyword dictionary may name one more relation
FwdSomeEdges ==
    { [args_dict |-> << [keys |-> NodeKeys], [keys |-> S] >>, kwargs_dict |-> k] :
        S \in SUBSET EdgeTypes,
        k \in { <<>>,
                << [name |-> <<"w">> \o DictSuffix,
                    keys |-> {<<"a", "q", "a">>}] >> } }

\* the key sets of the dictionaries passed by position and by keyword
DictShapes ==
    { NodeKeys, {NodeKey("a")}, {NodeKey("b")}, EdgeTypes, {<<"a", "r", "a">>},
      {NodeKey("a"), <<"b", "r", "a">>}, {} }
KwShapes == { EdgeTypes, {NodeKey("a")} }

KwDicts ==
    { k \in SeqsUpTo([name : KwNames, keys : KwShapes], 2) :
        \A i, j \in 1..Len(k) : i # j => k[i].name # k[j].name }

\* forward(*args_dict, **kwargs_dict) with up to two dictionaries of each kind
FwdAny ==
    { [args_dict |-> a, kwargs_dict |-> k] :
        a \in SeqsUpTo([keys : DictShapes], 2), k \in KwDicts }

\* Construction with every kind of add_self_loops attribute.
HCInit_Construct ==
    /\ HeteroConv__init__(ConvDicts(AttrValues, {<< <<0>>, <<1>> >>}), Aggrs)
    /\ UNCHANGED <<cscVars, bipVars, rsVars, mpVars,
                 mdVars, rwVars, pdVars, dgVars>>

HCInit_Forward ==
    /\ HeteroConv_forward(FwdPlain)
    /\ UNCHANGED <<cscVars, bipVars, rsVars, mpVars,
                 mdVars, rwVars, pdVars, dgVars>>

NextHCInit == HCInit_Construct \/ HCInit_Forward

\* the state before the first call; the other components are idle
StartHC == InitHC /\ IdleCsc /\ IdleBip /\ IdleRs /\ IdleMp
             /\ IdleMd /\ IdleRw /\ IdlePd /\ IdleDg

SpecHCInit ==
    /\ StartHC
    /\ [][NextHCInit]_vars

\* Aggregation: every conv output and every aggr.
HCAggr_Construct ==
    /\ HeteroConv__init__(ConvDicts({"absent"}, ConvOutputs), Aggrs)
    /\ UNCHANGED <<cscVars, bipVars, rsVars, mpVars,
                 mdVars, rwVars, pdVars, dgVars>>

HCAggr_Forward ==
    /\ HeteroConv_forward(FwdSomeEdges)
    /\ UNCHANGED <<cscVars, bipVars, rsVars, mpVars,
                 mdVars, rwVars, pdVars, dgVars>>

NextHCAggr == HCAggr_Construct \/ HCAggr_Forward

SpecHCAggr ==
    /\ StartHC
    /\ [][NextHCAggr]_vars

\* Dispatch: every shape of the argument dictionaries.
HCDispatch_Construct ==
    /\ HeteroConv__init__(ConvDicts({"absent"}, {<< <<0>>, <<1>> >>}), {"sum"})
    /\ UNCHANGED <<cscVars, bipVars, rsVars, mpVars,
                 mdVars, rwVars, pdVars, dgVars>>

HCDispatch_Forward ==
    /\ HeteroConv_forward(FwdAny)
    /\ UNCHANGED <<cscVars, bipVars, rsVars, mpVars,
                 mdVars, rwVars, pdVars, dgVars>>

NextHCDispatch == HCDispatch_Construct \/ HCDispatch_Forward

SpecHCDispatch ==
    /\ StartHC
    /\ [][NextHCDispatch]_vars

(***************************************************************************)
(* HeteroConv: claims                                                      *)
(***************************************************************************)
\* the relations forward invoked, in the order of the calls
CalledTypes == {hc_out.calls[j].et : j \in 1..Len(hc_out.calls)}

\* the outputs of the invoked relations that end in dst, in the order of convs
OutputsFor(dst) ==
    LET Sel(m) == m.et \in CalledTypes /\ m.et[3] = dst
        ms == SelectSeq(hc_convs, Sel)
    IN  [r \in 1..Len(ms) |-> ms[r].out]

RECURSIVE SumUpTo(_, _, _, _)
SumUpTo(xs, n, f, r) ==
    IF r = 0 THEN 0 ELSE xs[r][n][f] + SumUpTo(xs, n, f, r - 1)

\* val is the aggregation of the tensors xs (each of shape [N, F])
IsAggregate(val, xs, aggr) ==
    LET R == Len(xs)
        N == Len(xs[1])
        F == Len(xs[1][1])
        Entries(n, f) == {xs[r][n][f] : r \in 1..R}
    IN  IF aggr = "None"
        THEN /\ Len(val) = N
             /\ \A n \in 1..N :
                   /\ Len(val[n]) = R
                   /\ \A r \in 1..R : val[n][r] = xs[r][n]
        ELSE IF R = 1 THEN val = xs[1]
        ELSE IF aggr = "cat"
        THEN /\ Len(val) = N
             /\ \A n \in 1..N :
                   /\ Len(val[n]) = R * F
                   /\ \A r \in 1..R, f \in 1..F :
                         val[n][(r - 1) * F + f] = xs[r][n][f]
        ELSE /\ Len(val) = N
             /\ \A n \in 1..N :
                   /\ Len(val[n]) = F
                   /\ \A f \in 1..F :
                         CASE aggr = "sum" -> val[n][f] = SumUpTo(xs, n, f, R)
                           [] aggr = "mean" ->
                                 val[n][f] = <<SumUpTo(xs, n, f, R), R>>
                           [] aggr = "min" ->
                                 /\ val[n][f] \in Entries(n, f)
                                 /\ \A v \in Entries(n, f) : val[n][f] <= v
                           [] aggr = "max" ->
                                 /\ val[n][f] \in Entries(n, f)
                                 /\ \A v \in Entries(n, f) : val[n][f] >= v

\* C1: after forward, out_dict has exactly the destination types of the
\* invoked relations as keys, and out_dict[d] is the aggregation (sum, mean,
\* min, max, cat, or the stack along axis 1 for aggr=None) of the outputs of
\* the invoked relations ending in d, in the order of convs; a single output
\* is returned unchanged unless aggr is None.
C1_GroupPerDestination ==
    (hc_pc = "done" /\ hc_out.status = "ok") =>
        LET od == hc_out.out_dict
        IN  /\ \A i, j \in 1..Len(od) : i # j => od[i].key # od[j].key
            /\ {od[j].key : j \in 1..Len(od)} = {et[3] : et \in CalledTypes}
            /\ \A j \in 1..Len(od) :
                  IsAggregate(od[j].val, OutputsFor(od[j].key), hc_aggr)

\* C1 witness: two relations with different outputs were invoked for the
\* same destination and reduced by "max".
C1_Witness ==
    /\ hc_pc = "done"
    /\ hc_out.status = "ok"
    /\ hc_aggr = "max"
    /\ \E j \in 1..Len(hc_out.out_dict) :
          LET xs == OutputsFor(hc_out.out_dict[j].key)
          IN  Len(xs) = 2 /\ xs[1] # xs[2]

\* some keyword name of the call does not end with "_dict"
BadKeyword ==
    \E i \in 1..Len(hc_in.kwargs_dict) :
        ~EndsWith(hc_in.kwargs_dict[i].name, DictSuffix)

\* C2: a forward call with a keyword argument whose name does not end with
\* "_dict" raises ValueError, whatever convs holds, and calls no conv.
C2_BadKeywordRaises ==
    (hc_pc = "done" /\ BadKeyword) =>
        (hc_out.status = "ValueError" /\ hc_out.calls = <<>>)

\* C3: construction raises ValueError iff some relation with different source
\* and destination types has a module whose add_self_loops is truthy.
C3_InitRaisesIff ==
    (hc_pc # "new") =>
        ((hc_pc = "raised") <=>
            \E i \in 1..Len(hc_convs) :
                /\ hc_convs[i].et[1] # hc_convs[i].et[3]
                /\ hc_convs[i].asl \in {"True", "1"})

\* C3 witness: construction was refused although the first module, with
\* add_self_loops=True on a relation from "a" to "a", is acceptable.
C3_Witness ==
    /\ hc_pc = "raised"
    /\ Len(hc_convs) = 2
    /\ hc_convs[1].et = <<"a", "r", "a">>
    /\ hc_convs[1].asl = "True"
    /\ hc_convs[2].et = <<"b", "r", "a">>
    /\ hc_convs[2].asl = "1"

(***************************************************************************)
(* sampler/utils.py: graphs and the sorting helpers                        *)
(*                                                                         *)
(* Tensors are sequences; node ids, edge ids and positions are 0-based as  *)
(* in the code.                                                            *)
(***************************************************************************)
\* the largest number of nodes and of edges of the graph given to to_csc
MaxNodes == 2
MaxEdges == 2

TimeValues == {0, 1}

At(s, i) == s[i + 1]

\* s[perm]
Gather(s, perm) == [i \in 1..Len(perm) |-> At(s, perm[i])]

Perms(E) ==
    { p \in [1..E -> 0..(E - 1)] : \A i, j \in 1..E : i # j => p[i] # p[j] }

NonDecreasing(s) == \A i \in 1..(Len(s) - 1) : s[i] <= s[i + 1]

\* utils.index_sort(inputs): the pairs (sorted values, perm).  The order among
\* equal values is left open.
index_sort(inputs) ==
    { [values |-> Gather(inputs, p), perm |-> p] :
        p \in { q \in Perms(Len(inputs)) : NonDecreasing(Gather(inputs, q)) } }

\* utils.lexsort([minor, major]): the permutations that sort by the last key
\* first and by the first key among equal last keys.  The order among edges
\* equal in both keys is left open.
lexsort(minor, major) ==
    { p \in Perms(Len(major)) :
        \A i \in 1..(Len(p) - 1) :
            \/ At(major, p[i]) < At(major, p[i + 1])
            \/ /\ At(major, p[i]) = At(major, p[i + 1])
               /\ At(minor, p[i]) <= At(minor, p[i + 1]) }

\* index.index2ptr(index, size): ptr[i] is the number of entries below i
index2ptr(index, size) ==
    [i \in 1..(size + 1) |->
        Cardinality({e \in 1..Len(index) : index[e] < i - 1})]

\* SparseTensor.csc() of the adjacency holding the edges (row, col), which is
\* also the csr() of its transpose: colptr and the rows ordered by column,
\* then row
SparseCsc(row, col, size) ==
    LET p == CHOOSE q \in lexsort(row, col) : TRUE
    IN  [colptr |-> index2ptr(Gather(col, p), size), row |-> Gather(row, p)]

(***************************************************************************)
(* sampler/utils.py: sort_csc and to_csc                                   *)
(***************************************************************************)
Sorted(row, col, perm) ==
    [status |-> "ok", row |-> row, col |-> col, perm |-> perm]

\* a mutant: the rows are returned in the order of the input
sort_csc_keeps_row(row, col, has_src_time, src_node_time, has_edge_time, edge_time) ==
    IF ~has_src_time /\ ~has_edge_time
    THEN { Sorted(row, s.values, s.perm) : s \in index_sort(col) }
    ELSE IF has_edge_time
    THEN IF has_src_time
         THEN { [status |-> "AssertionError", row |-> <<>>, col |-> <<>>,
                 perm |-> <<>>] }
         ELSE { Sorted(row, Gather(col, p), p) : p \in lexsort(edge_time, col) }
    ELSE { Sorted(row, Gather(col, p), p) :
             p \in lexsort(Gather(src_node_time, row), col) }

\* lines 14-32: the outcomes of sort_csc(row, col, src_node_time, edge_time)
sort_csc(row, col, has_src_time, src_node_time, has_edge_time, edge_time) ==
    IF ~has_src_time /\ ~has_edge_time
    THEN { Sorted(Gather(row, s.perm), s.values, s.perm) : s \in index_sort(col) }
    ELSE IF has_edge_time
    THEN IF has_src_time
         THEN { [status |-> "AssertionError", row |-> <<>>, col |-> <<>>,
                 perm |-> <<>>] }
         ELSE { Sorted(Gather(row, p), Gather(col, p), p) :
                  p \in lexsort(edge_time, col) }
    ELSE { Sorted(Gather(row, p), Gather(col, p), p) :
             p \in lexsort(Gather(src_node_time, row), col) }

Raised(e) ==
    [status |-> e, colptr |-> <<>>, row |-> <<>>, perm_is_none |-> TRUE,
     perm |-> <<>>]

Returned(colptr, row, perm_is_none, perm) ==
    [status |-> "ok", colptr |-> colptr, row |-> row,
     perm_is_none |-> perm_is_none, perm |-> perm]

\* a mutant: is_sorted is ignored and the edges are always sorted
to_csc_edge_index_always_sorts(data) ==
    { IF s.status = "ok"
      THEN Returned(index2ptr(s.col, data.num_nodes), s.row, FALSE, s.perm)
      ELSE Raised(s.status) :
        s \in sort_csc(data.row, data.col, data.has_src_time,
                       data.src_node_time, data.has_edge_time, data.edge_time) }

\* lines 68-72: the branch of to_csc for data.edge_index
to_csc_edge_index(data) ==
    IF ~data.is_sorted
    THEN { IF s.status = "ok"
           THEN Returned(index2ptr(s.col, data.num_nodes), s.row, FALSE, s.perm)
           ELSE Raised(s.status) :
             s \in sort_csc(data.row, data.col, data.has_src_time,
                            data.src_node_time, data.has_edge_time,
                            data.edge_time) }
    ELSE { Returned(index2ptr(data.col, data.num_nodes), data.row, TRUE, <<>>) }

\* lines 50-66: the branches of to_csc for a SparseTensor
to_csc_sparse(data) ==
    LET a == SparseCsc(data.row, data.col, data.num_nodes)
    IN  { Returned(a.colptr, a.row, TRUE, <<>>) }

\* a mutant: the error is raised for adj_t as it is for adj
to_csc_adj_t_raises(data) ==
    IF data.has_adj \/ data.has_adj_t
    THEN IF data.has_src_time THEN { Raised("NotImplementedError") }
         ELSE to_csc_sparse(data)
    ELSE IF data.has_edge_index THEN to_csc_edge_index(data)
    ELSE { Returned([i \in 1..(data.num_nodes + 1) |-> 0], <<>>, TRUE, <<>>) }

\* lines 48-87: the outcomes of to_csc(data, device, share_memory, is_sorted,
\* src_node_time, edge_time).  Moving the tensors to the device and sharing
\* their memory (lines 77-85) do not change their values.
to_csc(data) ==
    IF data.has_adj
    THEN IF data.has_src_time THEN { Raised("NotImplementedError") }
         ELSE to_csc_sparse(data)
    ELSE IF data.has_adj_t THEN to_csc_sparse(data)
    ELSE IF data.has_edge_index THEN to_csc_edge_index(data)
    ELSE { Returned([i \in 1..(data.num_nodes + 1) |-> 0], <<>>, TRUE, <<>>) }

(***************************************************************************)
(* to_csc: the inputs of the callers and the specification                 *)
(***************************************************************************)
\* The graphs of at most MaxNodes nodes and MaxEdges edges.
Graphs ==
    UNION { [num_nodes : {n}, row : [1..e -> 0..(n - 1)],
             col : [1..e -> 0..(n - 1)]] :
              n \in 1..MaxNodes, e \in 0..MaxEdges }

Zeros(n) == [i \in 1..n |-> 0]

NoTimes ==
    [has_src_time |-> FALSE, src_node_time |-> <<>>,
     has_edge_time |-> FALSE, edge_time |-> <<>>]

\* The time arguments for the graph g: none, one of the two, or both.
TimeArgs(g) ==
    LET n == g.num_nodes
        e == Len(g.row)
    IN  { NoTimes,
          [has_src_time |-> TRUE, src_node_time |-> Zeros(n),
           has_edge_time |-> TRUE, edge_time |-> Zeros(e)] }
        \cup { [has_src_time |-> TRUE, src_node_time |-> t,
                has_edge_time |-> FALSE, edge_time |-> <<>>] :
                 t \in [1..n -> TimeValues] }
        \cup { [has_src_time |-> FALSE, src_node_time |-> <<>>,
                has_edge_time |-> TRUE, edge_time |-> t] :
                 t \in [1..e -> TimeValues] }

CscCall(g, t, has_adj, has_adj_t, has_edge_index, is_sorted) ==
    [num_nodes |-> g.num_nodes, row |-> g.row, col |-> g.col,
     has_adj |-> has_adj, has_adj_t |-> has_adj_t,
     has_edge_index |-> has_edge_index, is_sorted |-> is_sorted,
     has_src_time |-> t.has_src_time, src_node_time |-> t.src_node_time,
     has_edge_time |-> t.has_edge_time, edge_time |-> t.edge_time]

\* Data holding its edges as edge_index, with every time argument.
CscDenseInputs(g) ==
    { CscCall(g, t, FALSE, FALSE, TRUE, s) : t \in TimeArgs(g), s \in BOOLEAN }

\* Data holding its edges as a SparseTensor in adj, adj_t or both, with or
\* without an edge_index beside it, with and without src_node_time.
CscSparseInputs(g) ==
    { CscCall(g, t, l[1], l[2], e, s) :
        t \in { NoTimes,
                [NoTimes EXCEPT !.has_src_time = TRUE,
                                !.src_node_time = Zeros(g.num_nodes)] },
        l \in { <<TRUE, FALSE>>, <<FALSE, TRUE>>, <<TRUE, TRUE>> },
        e \in BOOLEAN, s \in BOOLEAN }

\* Data without edge_index and without a SparseTensor: it has no edges.
CscEmptyInputs(g) ==
    IF Len(g.row) = 0
    THEN { CscCall(g, NoTimes, FALSE, FALSE, FALSE, s) : s \in BOOLEAN }
    ELSE {}

CscInputs(g) == CscDenseInputs(g) \cup CscSparseInputs(g) \cup CscEmptyInputs(g)

NoCscCall == [status |-> "none"]

InitCsc ==
    /\ csc_in = CscCall([num_nodes |-> 1, row |-> <<>>, col |-> <<>>], NoTimes,
                        FALSE, FALSE, FALSE, FALSE)
    /\ csc_out = NoCscCall

\* one call of to_csc
ToCsc ==
    /\ csc_out.status = "none"
    /\ \E g \in Graphs :
       \E data \in CscInputs(g) :
          /\ csc_in' = data
          /\ \E o \in to_csc(data) : csc_out' = o
    /\ UNCHANGED <<hcVars, bipVars, rsVars, mpVars,
                 mdVars, rwVars, pdVars, dgVars>>

NextCsc == ToCsc

\* the state before the first call; the other components are idle
StartCsc == InitCsc /\ IdleHC /\ IdleBip /\ IdleRs /\ IdleMp
             /\ IdleMd /\ IdleRw /\ IdlePd /\ IdleDg

SpecCsc ==
    /\ StartCsc
    /\ [][NextCsc]_vars

(***************************************************************************)
(* to_csc: claims                                                          *)
(***************************************************************************)
\* to_csc took the data.edge_index branch
UsedEdgeIndex ==
    ~csc_in.has_adj /\ ~csc_in.has_adj_t /\ csc_in.has_edge_index

NumEdges == Len(csc_in.row)

\* how many of the positions I of the sequences r hold the value v
CountIn(r, I, v) == Cardinality({i \in I : r[i] = v})

\* C4: for data holding an edge_index (unsorted, or is_sorted with sorted
\* columns) colptr has num_nodes + 1 entries, starts at 0, is non-decreasing
\* and ends at E, and row[colptr[j] : colptr[j+1]] holds the sources of the
\* input edges into j, each as often as in the input.
C4_ValidCsc ==
    ( /\ csc_out.status = "ok"
      /\ UsedEdgeIndex
      /\ (csc_in.is_sorted => NonDecreasing(csc_in.col)) ) =>
        LET colptr == csc_out.colptr
            row == csc_out.row
            N == csc_in.num_nodes
        IN  /\ Len(colptr) = N + 1
            /\ At(colptr, 0) = 0
            /\ NonDecreasing(colptr)
            /\ At(colptr, N) = NumEdges
            /\ Len(row) = NumEdges
            /\ \A j \in 0..(N - 1), v \in 0..(N - 1) :
                  CountIn(row, (At(colptr, j) + 1)..At(colptr, j + 1), v)
                    = Cardinality({e \in 1..NumEdges :
                          csc_in.col[e] = j /\ csc_in.row[e] = v})

\* C4 witness: two edges given out of column order were converted.
C4_Witness ==
    /\ csc_out.status = "ok"
    /\ UsedEdgeIndex
    /\ ~csc_in.is_sorted
    /\ csc_in.num_nodes = 2
    /\ csc_in.row = <<1, 0>>
    /\ csc_in.col = <<1, 0>>
    /\ csc_out.colptr = <<0, 1, 2>>
    /\ csc_out.row = <<0, 1>>

C6_SparseTimeRaises ==
    ( /\ csc_out.status # "none"
      /\ csc_in.has_src_time
      /\ (csc_in.has_adj \/ csc_in.has_adj_t) ) =>
        csc_out.status = "NotImplementedError"

\* C6 amended: to_csc raises NotImplementedError exactly when src_node_time is
\* given and the data has the attribute adj; with adj_t alone it returns the
\* layout of adj_t and perm None.
C6_AdjTimeRaises ==
    (csc_out.status # "none") =>
        /\ (csc_out.status = "NotImplementedError") <=>
              (csc_in.has_src_time /\ csc_in.has_adj)
        /\ (csc_in.has_src_time /\ csc_in.has_adj_t /\ ~csc_in.has_adj) =>
              /\ csc_out.status = "ok"
              /\ csc_out.perm_is_none
              /\ csc_out.colptr =
                    SparseCsc(csc_in.row, csc_in.col, csc_in.num_nodes).colptr
              /\ csc_out.row =
                    SparseCsc(csc_in.row, csc_in.col, csc_in.num_nodes).row

\* C6 witness: src_node_time was given with adj_t and the call returned.
C6_Witness ==
    /\ csc_out.status = "ok"
    /\ csc_in.has_src_time
    /\ csc_in.has_adj_t
    /\ ~csc_in.has_adj
    /\ Len(csc_in.row) = 2

(***************************************************************************)
(* utils/hetero.py: construct_bipartite_edge_index on dense tensors        *)
(***************************************************************************)
\* the largest number of edges of one edge type
MaxTypeEdges == 2

\* The row of an edge attribute is named by its edge type and its position.
AttrRows(edge_type, n) == [r \in 1..n |-> <<edge_type, r>>]

\* paddle.expand(value, shape=[size, -1]): a first dimension of 1 is repeated;
\* any other first dimension is an error.  Whether a size of 0 is accepted
\* depends on the version of the framework (zero_size).
Expand(value, size, zero_size) ==
    IF Len(value) # 1 \/ (size = 0 /\ ~zero_size)
    THEN [ok |-> FALSE, value |-> <<>>]
    ELSE [ok |-> TRUE, value |-> [r \in 1..size |-> value[1]]]

AddOffset(s, offset) == [e \in 1..Len(s) |-> s[e] + offset]

\* a mutant: the two offsets are exchanged
ShiftEdgeIndexSwapped(edge_index, src_offset, dst_offset) ==
    [row |-> AddOffset(edge_index.row, dst_offset),
     col |-> AddOffset(edge_index.col, src_offset)]

\* lines 105-108: the clone with edge_index[0] += src_offset and
\* edge_index[1] += dst_offset
ShiftEdgeIndex(edge_index, src_offset, dst_offset) ==
    [row |-> AddOffset(edge_index.row, src_offset),
     col |-> AddOffset(edge_index.col, dst_offset)]

\* lines 96-118: the loop over src_offset_dict.items(), from entry i on
RECURSIVE BipLoop(_, _, _, _)
BipLoop(inp, zero_size, i, acc) ==
    IF i > Len(inp.src_offset_dict) \/ acc.status # "ok" THEN acc
    ELSE LET edge_type == inp.src_offset_dict[i].et
             src_offset == inp.src_offset_dict[i].offset
             dst_offset == inp.dst_offset_dict[edge_type[Len(edge_type)]]
             edge_index == ShiftEdgeIndex(inp.edge_index_dict[edge_type],
                                          src_offset, dst_offset)
             E == Len(edge_index.row)
             value == inp.edge_attr_dict[edge_type]
             x == IF Len(value) # E THEN Expand(value, E, zero_size)
                  ELSE [ok |-> TRUE, value |-> value]
         IN  BipLoop(inp, zero_size, i + 1,
                 [status |-> IF inp.has_edge_attr /\ ~x.ok THEN "ExpandError"
                             ELSE "ok",
                  edge_indices |-> Append(acc.edge_indices, edge_index),
                  edge_attrs |-> IF inp.has_edge_attr
                                 THEN Append(acc.edge_attrs, x.value)
                                 ELSE acc.edge_attrs])

\* lines 93-134: the outcome of construct_bipartite_edge_index.
\* paddle.concat of an empty list (no edge type at all) is an error.
construct_bipartite_edge_index(inp, zero_size) ==
    LET acc == BipLoop(inp, zero_size, 1,
                   [status |-> "ok", edge_indices |-> <<>>, edge_attrs |-> <<>>])
        none == [row |-> <<>>, col |-> <<>>]
    IN  IF acc.status # "ok"
        THEN [status |-> acc.status, edge_index |-> none,
              edge_attr_is_none |-> TRUE, edge_attr |-> <<>>]
        ELSE IF acc.edge_indices = <<>>
        THEN [status |-> "ConcatError", edge_index |-> none,
              edge_attr_is_none |-> TRUE, edge_attr |-> <<>>]
        ELSE [status |-> "ok",
              edge_index |->
                  [row |-> Flatten([i \in 1..Len(acc.edge_indices) |->
                                      acc.edge_indices[i].row]),
                   col |-> Flatten([i \in 1..Len(acc.edge_indices) |->
                                      acc.edge_indices[i].col])],
              edge_attr_is_none |-> ~inp.has_edge_attr,
              edge_attr |-> IF inp.has_edge_attr THEN Flatten(acc.edge_attrs)
                            ELSE <<>>]

(***************************************************************************)
(* construct_bipartite_edge_index: inputs and specification                *)
(***************************************************************************)
BipTypes == { <<"a", "r", "b">>, <<"b", "r", "a">>, <<"a", "q", "a">> }

\* The edges of one type are drawn from these (source, destination) pairs.
BipEdges == { <<0, 1>>, <<1, 0>> }

BipEdgeIndexes ==
    { [row |-> [e \in 1..Len(es) |-> es[e][1]],
       col |-> [e \in 1..Len(es) |-> es[e][2]]] :
        es \in SeqsUpTo(BipEdges, MaxTypeEdges) }

SrcOffsets == {0, 2}
DstOffsetDicts == { [a |-> 0, b |-> 3], [a |-> 1, b |-> 0] }

\* src_offset_dict: up to two edge types, in any order
SrcOffsetDicts ==
    { d \in SeqsUpTo([et : BipTypes, offset : SrcOffsets], 2) :
        \A i, j \in 1..Len(d) : i # j => d[i].et # d[j].et }

TypesOf(d) == {d[i].et : i \in 1..Len(d)}

\* One call: the edge indices and the attributes (of 0, 1 or 2 rows) of the
\* edge types of src_offset_dict d.
BipCall(d, ei, o, h, n) ==
    [src_offset_dict |-> d, edge_index_dict |-> ei, dst_offset_dict |-> o,
     has_edge_attr |-> h,
     edge_attr_dict |-> [t \in TypesOf(d) |-> AttrRows(t, n[t])]]

NoBipCall ==
    [status |-> "none", edge_index |-> [row |-> <<>>, col |-> <<>>],
     edge_attr_is_none |-> TRUE, edge_attr |-> <<>>]

InitBip ==
    /\ bip_in = [src_offset_dict |-> <<>>, edge_index_dict |-> <<>>,
                 dst_offset_dict |-> [a |-> 0, b |-> 0],
                 has_edge_attr |-> FALSE, edge_attr_dict |-> <<>>]
    /\ bip_out = NoBipCall

\* one call of construct_bipartite_edge_index
ConstructBipartite ==
    /\ bip_out.status = "none"
    /\ \E d \in SrcOffsetDicts :
       \E ei \in [TypesOf(d) -> BipEdgeIndexes], o \in DstOffsetDicts,
          h \in BOOLEAN, n \in [TypesOf(d) -> 0..2], zero_size \in BOOLEAN :
          /\ ~h => \A t \in TypesOf(d) : n[t] = 0
          /\ bip_in' = BipCall(d, ei, o, h, n)
          /\ bip_out' =
                construct_bipartite_edge_index(BipCall(d, ei, o, h, n), zero_size)
    /\ UNCHANGED <<hcVars, cscVars, rsVars, mpVars,
                 mdVars, rwVars, pdVars, dgVars>>

NextBip == ConstructBipartite

\* the state before the first call; the other components are idle
StartBip == InitBip /\ IdleHC /\ IdleCsc /\ IdleRs /\ IdleMp
             /\ IdleMd /\ IdleRw /\ IdlePd /\ IdleDg

SpecBip ==
    /\ StartBip
    /\ [][NextBip]_vars

(***************************************************************************)
(* construct_bipartite_edge_index: claims                                  *)
(***************************************************************************)
\* the number of edges of the i-th edge type of src_offset_dict
TypeEdges(i) ==
    Len(bip_in.edge_index_dict[bip_in.src_offset_dict[i].et].row)

\* the number of output columns before those of the i-th edge type
RECURSIVE EdgesBefore(_)
EdgesBefore(i) == IF i = 1 THEN 0 ELSE EdgesBefore(i - 1) + TypeEdges(i - 1)

Nonzero(m) ==
    Flatten([s \in 1..Len(m) |->
        LET T(p) == m[s][p[2] + 1]
        IN  SelectSeq([v \in 1..Len(m[s]) |-> <<s - 1, v - 1>>], T)])

First(pairs) == [p \in 1..Len(pairs) |-> pairs[p][1]]
Second(pairs) == [p \in 1..Len(pairs) |-> pairs[p][2]]

\* line 90: e_mask = n_mask[:, edge_index[0]] & n_mask[:, edge_index[1]]
EdgeMask(data, n_mask) ==
    [s \in 1..Len(n_mask) |->
        [e \in 1..Len(data.row) |->
            n_mask[s][data.row[e] + 1] /\ n_mask[s][data.col[e] + 1]]]

\* lines 95-96: node_map is all ones, then node_map[n_sub_batch, n_id] = arange
NodeMap(num_nodes, pairs, arange) ==
    [s \in 1..num_nodes |->
        [v \in 1..num_nodes |->
            IF \E p \in 1..Len(pairs) : pairs[p] = <<s - 1, v - 1>>
            THEN arange[CHOOSE p \in 1..Len(pairs) : pairs[p] = <<s - 1, v - 1>>]
            ELSE 1]]

\* a mutant: the offsets are not added, every edge is looked up in the rows of
\* subgraph 0
SubgraphOffsetsNone(arange, num_nodes, e_sub_batch, garbage) ==
    [q \in 1..Len(e_sub_batch) |-> 0]

\* line 97: (arange * num_nodes)[e_sub_batch].  arange has one entry per
\* subgraph node; reading it at a subgraph id beyond its length is outside
\* the tensor and yields an arbitrary value (garbage) where it does not raise.
SubgraphOffsets(arange, num_nodes, e_sub_batch, garbage) ==
    [q \in 1..Len(e_sub_batch) |->
        IF e_sub_batch[q] < Len(arange)
        THEN At(arange, e_sub_batch[q]) * num_nodes
        ELSE garbage * num_nodes]

\* lines 85-100: the outcome of map(data, n_mask).  oob says what a read
\* outside a tensor does: it raises, or it yields the value oob.garbage.
RootedSubgraph_map(data, n_mask, oob) ==
    LET num_nodes == data.num_nodes
        nz == Nonzero(n_mask)
        n_sub_batch == First(nz)
        n_id == Second(nz)
        ez == Nonzero(EdgeMask(data, n_mask))
        e_sub_batch == First(ez)
        e_id == Second(ez)
        arange == [p \in 1..Len(n_id) |-> p - 1]
        node_map == NodeMap(num_nodes, nz, arange)
        offsets == SubgraphOffsets(arange, num_nodes, e_sub_batch, oob.garbage)
        flat == Flatten(node_map)
        outside == \E q \in 1..Len(e_sub_batch) : e_sub_batch[q] >= Len(arange)
    IN  IF outside /\ oob.raises
        THEN [status |-> "IndexError",
              sub_edge_index |-> [row |-> <<>>, col |-> <<>>],
              n_id |-> <<>>, e_id |-> <<>>, n_sub_batch |-> <<>>,
              e_sub_batch |-> <<>>]
        ELSE [status |-> "ok",
              sub_edge_index |->
                  [row |-> [q \in 1..Len(e_id) |->
                              At(flat, At(data.row, e_id[q]) + offsets[q])],
                   col |-> [q \in 1..Len(e_id) |->
                              At(flat, At(data.col, e_id[q]) + offsets[q])]],
              n_id |-> n_id, e_id |-> e_id, n_sub_batch |-> n_sub_batch,
              e_sub_batch |-> e_sub_batch]

(***************************************************************************)
(* RootedSubgraph.map: inputs and specification                            *)
(***************************************************************************)
\* the largest number of nodes of a graph given to map directly
MaxMapNodes == 2

\* Graphs of at most two edges.
MapGraphs ==
    UNION { [num_nodes : {n}, row : [1..e -> 0..(n - 1)],
             col : [1..e -> 0..(n - 1)]] :
              n \in 1..MaxMapNodes, e \in 0..2 }

Masks(n) == [1..n -> [1..n -> BOOLEAN]]

NoMapCall == [status |-> "none"]

InitMp ==
    /\ mp_in = [data |-> [num_nodes |-> 1, row |-> <<>>, col |-> <<>>],
                n_mask |-> << <<FALSE>> >>]
    /\ mp_out = NoMapCall

\* one call of map with any mask
MapCall ==
    /\ mp_out.status = "none"
    /\ \E data \in MapGraphs :
       \E n_mask \in Masks(data.num_nodes), raises \in BOOLEAN,
          garbage \in 0..(data.num_nodes - 1) :
          /\ mp_in' = [data |-> data, n_mask |-> n_mask]
          /\ mp_out' = RootedSubgraph_map(data, n_mask,
                           [raises |-> raises, garbage |-> garbage])
    /\ UNCHANGED <<hcVars, cscVars, bipVars, rsVars,
                 mdVars, rwVars, pdVars, dgVars>>

NextMap == MapCall

\* the state before the first call; the other components are idle
StartMap == InitMp /\ IdleHC /\ IdleCsc /\ IdleBip /\ IdleRs
             /\ IdleMd /\ IdleRw /\ IdlePd /\ IdleDg

SpecMap ==
    /\ StartMap
    /\ [][NextMap]_vars

(***************************************************************************)
(* RootedSubgraph.map: claims                                              *)
(***************************************************************************)
\* out is a correct result of map for data and n_mask
MapResultOk(data, n_mask, out) ==
    LET N == data.num_nodes
        E == Len(data.row)
        NP == Len(out.n_id)
        NQ == Len(out.e_id)
        npairs == [p \in 1..NP |-> <<out.n_sub_batch[p], out.n_id[p]>>]
        epairs == [q \in 1..NQ |-> <<out.e_sub_batch[q], out.e_id[q]>>]
        Before(a, b) == a[1] < b[1] \/ (a[1] = b[1] /\ a[2] < b[2])
        InSub(s, v) == n_mask[s + 1][v + 1]
    IN  /\ Len(out.n_sub_batch) = NP
        /\ Len(out.e_sub_batch) = NQ
        /\ \A p \in 1..(NP - 1) : Before(npairs[p], npairs[p + 1])
        /\ {npairs[p] : p \in 1..NP} =
              {<<s, v>> \in (0..(N - 1)) \X (0..(N - 1)) : InSub(s, v)}
        /\ \A q \in 1..(NQ - 1) : Before(epairs[q], epairs[q + 1])
        /\ {epairs[q] : q \in 1..NQ} =
              {<<s, e>> \in (0..(N - 1)) \X (0..(E - 1)) :
                  InSub(s, At(data.row, e)) /\ InSub(s, At(data.col, e))}
        /\ Len(out.sub_edge_index.row) = NQ
        /\ Len(out.sub_edge_index.col) = NQ
        /\ \A q \in 1..NQ :
              LET pr == out.sub_edge_index.row[q]
                  pc == out.sub_edge_index.col[q]
              IN  /\ pr \in 0..(NP - 1)
                  /\ pc \in 0..(NP - 1)
                  /\ At(out.n_id, pr) = At(data.row, out.e_id[q])
                  /\ At(out.n_id, pc) = At(data.col, out.e_id[q])
                  /\ At(out.n_sub_batch, pr) = out.e_sub_batch[q]
                  /\ At(out.n_sub_batch, pc) = out.e_sub_batch[q]

\* C9: for every mask and every edge_index, map returns the true entries of
\* the mask in row-major order as (n_sub_batch, n_id), the (subgraph, edge)
\* pairs with both endpoints in the subgraph as (e_sub_batch, e_id), and in
\* sub_edge_index the positions of the endpoints within their own subgraph.
C9_MapAnyMask ==
    (mp_out.status # "none") =>
        /\ mp_out.status = "ok"
        /\ MapResultOk(mp_in.data, mp_in.n_mask, mp_out)

\* every root is a node of its own subgraph
RootedMask(n_mask) == \A s \in 1..Len(n_mask) : n_mask[s][s]

\* map is correct for the masks in which every root is in its own subgraph.
MapRootedMask ==
    (mp_out.status # "none" /\ RootedMask(mp_in.n_mask)) =>
        /\ mp_out.status = "ok"
        /\ MapResultOk(mp_in.data, mp_in.n_mask, mp_out)

(***************************************************************************)
(* transforms/rooted_subgraph.py: RootedEgoNets and RootedSubgraph.forward *)
(***************************************************************************)
\* the largest num_hops, and the largest graph given to the transform
MaxHops == 2
MaxRsNodes == 3

\* utils.to_paddle_csc_tensor(edge_index, size).t(): entry [i, k] counts the
\* edges from k to i
AdjT(data) ==
    [i \in 1..data.num_nodes |->
        [k \in 1..data.num_nodes |->
            Cardinality({e \in 1..Len(data.row) :
                data.row[e] = k - 1 /\ data.col[e] = i - 1})]]

Eye(n) == [i \in 1..n |-> [j \in 1..n |-> IF i = j THEN 1 ELSE 0]]

MatMul(A, B) ==
    [i \in 1..Len(A) |->
        [j \in 1..Len(B[1]) |->
            SeqSum([k \in 1..Len(B) |-> A[i][k] * B[k][j]])]]

MatAdd(A, B) == [i \in 1..Len(A) |-> [j \in 1..Len(A[i]) |-> A[i][j] + B[i][j]]]

\* a mutant: the product replaces the mask instead of being added to it
RECURSIVE EgoMaskReplaced(_, _, _)
EgoMaskReplaced(data, n_mask, hops) ==
    IF hops = 0 THEN n_mask
    ELSE EgoMaskReplaced(data, MatMul(AdjT(data), n_mask), hops - 1)

\* lines 130-133: n_mask after the loop n_mask += adj_t @ n_mask
RECURSIVE EgoMask(_, _, _)
EgoMask(data, n_mask, hops) ==
    IF hops = 0 THEN n_mask
    ELSE EgoMask(data, MatAdd(n_mask, MatMul(AdjT(data), n_mask)), hops - 1)

\* lines 126-135: RootedEgoNets.extract
RootedEgoNets_extract(data, num_hops, oob) ==
    LET n_mask == EgoMask(data, Eye(data.num_nodes), num_hops)
    IN  RootedSubgraph_map(data,
            [s \in 1..Len(n_mask) |->
                [v \in 1..Len(n_mask[s]) |-> n_mask[s][v] > 0]], oob)

\* lines 102-106: the RootedSubgraphData made of data and of the result of
\* extract
RootedSubgraph_forward(data, out) ==
    [status |-> out.status, num_nodes |-> data.num_nodes, row |-> data.row,
     col |-> data.col, sub_edge_index |-> out.sub_edge_index,
     n_id |-> out.n_id, e_id |-> out.e_id, n_sub_batch |-> out.n_sub_batch,
     e_sub_batch |-> out.e_sub_batch]

(***************************************************************************)
(* transforms/rooted_subgraph.py: RootedSubgraphData.__inc__ and the       *)
(* collation of a list of objects into a batch                             *)
(***************************************************************************)
\* a mutant: the subgraph ids are incremented by the last id itself
RootedSubgraphData__inc__last(d, key) ==
    CASE key = "sub_edge_index" -> Len(d.n_id)
      [] key \in {"n_sub_batch", "e_sub_batch"} -> d.n_sub_batch[Len(d.n_sub_batch)]
      [] key = "n_id" -> d.num_nodes
      [] key = "e_id" -> Len(d.row)

\* lines 31-40: __inc__(key, value) for the keys of the rooted subgraphs
RootedSubgraphData__inc__(d, key) ==
    CASE key = "sub_edge_index" -> Len(d.n_id)
      [] key \in {"n_sub_batch", "e_sub_batch"} ->
            1 + d.n_sub_batch[Len(d.n_sub_batch)]
      [] key = "n_id" -> d.num_nodes
      [] key = "e_id" -> Len(d.row)

\* the sum of the increments of the objects before the i-th
RECURSIVE CumInc(_, _, _)
CumInc(list, key, i) ==
    IF i = 1 THEN 0
    ELSE CumInc(list, key, i - 1) + RootedSubgraphData__inc__(list[i - 1], key)

\* data.Batch.from_data_list: every value is incremented by the increments of
\* the objects before it, and the values are concatenated
Collate(list) ==
    LET Cat(key, Values(_)) ==
            Flatten([i \in 1..Len(list) |->
                AddOffset(Values(list[i]), CumInc(list, key, i))])
        NSub(d) == d.n_sub_batch
        ESub(d) == d.e_sub_batch
        NId(d) == d.n_id
        EId(d) == d.e_id
        SubRow(d) == d.sub_edge_index.row
        SubCol(d) == d.sub_edge_index.col
    IN  [status |-> "ok",
         n_sub_batch |-> Cat("n_sub_batch", NSub),
         e_sub_batch |-> Cat("e_sub_batch", ESub),
         n_id |-> Cat("n_id", NId),
         e_id |-> Cat("e_id", EId),
         sub_edge_index |-> [row |-> Cat("sub_edge_index", SubRow),
                             col |-> Cat("sub_edge_index", SubCol)]]

(***************************************************************************)
(* Rooted subgraphs: inputs and specifications                             *)
(***************************************************************************)
\* Graphs of at most MaxRsNodes nodes and three edges.
EgoGraphs ==
    UNION { [num_nodes : {n}, row : [1..e -> 0..(n - 1)],
             col : [1..e -> 0..(n - 1)]] :
              n \in 1..MaxRsNodes, e \in 0..3 }

\* The graphs collated into batches: at most three nodes and two edges.
BatchGraphs ==
    UNION { [num_nodes : {n}, row : [1..e -> 0..(n - 1)],
             col : [1..e -> 0..(n - 1)]] :
              n \in 1..3, e \in 0..2 }

NoBatch == [status |-> "none"]

InitRs ==
    /\ rs_hops = -1
    /\ rs_list = <<>>
    /\ rs_batch = NoBatch

\* RootedEgoNets(num_hops)
RootedEgoNets__init__ ==
    /\ rs_hops = -1
    /\ \E num_hops \in 0..MaxHops : rs_hops' = num_hops
    /\ UNCHANGED <<rs_list, rs_batch>>

\* the transform is applied to one more graph
RootedEgoNets_forward(GraphInputs, max_len) ==
    /\ rs_hops >= 0
    /\ rs_batch.status = "none"
    /\ Len(rs_list) < max_len
    /\ \E data \in GraphInputs :
       \E raises \in BOOLEAN, garbage \in 0..(data.num_nodes - 1) :
          rs_list' = Append(rs_list,
              RootedSubgraph_forward(data,
                  RootedEgoNets_extract(data, rs_hops,
                      [raises |-> raises, garbage |-> garbage])))
    /\ UNCHANGED <<rs_hops, rs_batch>>

\* the objects are collated into one batch
CollateBatch ==
    /\ rs_batch.status = "none"
    /\ Len(rs_list) = 2
    /\ rs_batch' = Collate(rs_list)
    /\ UNCHANGED <<rs_hops, rs_list>>

Ego_Init ==
    /\ RootedEgoNets__init__
    /\ UNCHANGED <<hcVars, cscVars, bipVars, mpVars,
                 mdVars, rwVars, pdVars, dgVars>>

Ego_Forward ==
    /\ RootedEgoNets_forward(EgoGraphs, 1)
    /\ UNCHANGED <<hcVars, cscVars, bipVars, mpVars,
                 mdVars, rwVars, pdVars, dgVars>>

NextEgoNets == Ego_Init \/ Ego_Forward

\* the state before the first call; the other components are idle
StartRs == InitRs /\ IdleHC /\ IdleCsc /\ IdleBip /\ IdleMp
             /\ IdleMd /\ IdleRw /\ IdlePd /\ IdleDg

SpecEgoNets ==
    /\ StartRs
    /\ [][NextEgoNets]_vars

Batch_Forward ==
    /\ RootedEgoNets_forward(BatchGraphs, 2)
    /\ UNCHANGED <<hcVars, cscVars, bipVars, mpVars,
                 mdVars, rwVars, pdVars, dgVars>>

Batch_Collate ==
    /\ CollateBatch
    /\ UNCHANGED <<hcVars, cscVars, bipVars, mpVars,
                 mdVars, rwVars, pdVars, dgVars>>

NextRsBatch == Ego_Init \/ Batch_Forward \/ Batch_Collate

SpecRsBatch ==
    /\ StartRs
    /\ [][NextRsBatch]_vars

(***************************************************************************)
(* Rooted subgraphs: claims                                                *)
(***************************************************************************)
\* the nodes from which s is reached along at most k edges of d
RECURSIVE WithinHops(_, _, _)
WithinHops(d, s, k) ==
    IF k = 0 THEN {s}
    ELSE LET near == WithinHops(d, s, k - 1)
         IN  near \cup {d.row[e] : e \in {x \in 1..Len(d.row) : d.col[x] \in near}}

SubgraphNodes(d, s) ==
    {d.n_id[p] : p \in {x \in 1..Len(d.n_id) : d.n_sub_batch[x] = s}}

SubgraphEdges(d, s) ==
    {d.e_id[q] : q \in {x \in 1..Len(d.e_id) : d.e_sub_batch[x] = s}}

\* C8: in the object made by RootedEgoNets(num_hops=k), the nodes of the
\* subgraph of every root s are the nodes from which s is reached along at
\* most k edges (s itself included), each listed once, and its edges are the
\* edges with both endpoints among them; with k = 0 the only node is s.
C8_EgoNets ==
    \A i \in 1..Len(rs_list) :
        LET d == rs_list[i]
        IN  /\ d.status = "ok"
            /\ \A p, q \in 1..Len(d.n_id) :
                  (p # q /\ d.n_sub_batch[p] = d.n_sub_batch[q]) =>
                      d.n_id[p] # d.n_id[q]
            /\ \A s \in 0..(d.num_nodes - 1) :
                  /\ SubgraphNodes(d, s) = WithinHops(d, s, rs_hops)
                  /\ SubgraphEdges(d, s) =
                        {e \in 0..(Len(d.row) - 1) :
                            /\ At(d.row, e) \in WithinHops(d, s, rs_hops)
                            /\ At(d.col, e) \in WithinHops(d, s, rs_hops)}
                  /\ rs_hops = 0 => SubgraphNodes(d, s) = {s}

\* C8 witness: with two hops on the path 0 -> 1 -> 2, the subgraph of root 2
\* holds all three nodes and both edges, the subgraph of root 0 only node 0.
C8_Witness ==
    /\ rs_hops = 2
    /\ Len(rs_list) = 1
    /\ rs_list[1].num_nodes = 3
    /\ rs_list[1].row = <<0, 1>>
    /\ rs_list[1].col = <<1, 2>>
    /\ SubgraphNodes(rs_list[1], 2) = {0, 1, 2}
    /\ SubgraphEdges(rs_list[1], 2) = {0, 1}
    /\ SubgraphNodes(rs_list[1], 0) = {0}

\* the part of the batch value that comes from the i-th object
BatchSlice(values, Lens(_), i) ==
    LET start == SeqSum([j \in 1..(i - 1) |-> Lens(rs_list[j])])
    IN  SubSeq(values, start + 1, start + Lens(rs_list[i]))

NLen(d) == Len(d.n_id)
ELen(d) == Len(d.e_id)

\* the sum over the objects before the i-th
SumBefore(F(_), i) == SeqSum([j \in 1..(i - 1) |-> F(rs_list[j])])

LastSubgraph(d) == d.n_sub_batch[Len(d.n_sub_batch)]
NextSubgraph(d) == 1 + LastSubgraph(d)
NumNodes(d) == d.num_nodes
NumEdges_(d) == Len(d.row)

SeqSet(s) == {s[i] : i \in 1..Len(s)}

\* C10: in a batch, sub_edge_index is incremented by the number of entries
\* of n_id, n_id by num_nodes, e_id by the number of edges, n_sub_batch and
\* e_sub_batch by 1 + the last entry of n_sub_batch; that increment exceeds
\* every subgraph id of the object (n_sub_batch is non-decreasing), so the
\* subgraph ids of two graphs of the batch never coincide.
C10_BatchKeepsApart ==
    (rs_batch.status = "ok") =>
        /\ \A i \in 1..Len(rs_list) :
              LET d == rs_list[i]
              IN  /\ NonDecreasing(d.n_sub_batch)
                  /\ \A x \in SeqSet(d.n_sub_batch) \cup SeqSet(d.e_sub_batch) :
                        x < NextSubgraph(d)
                  /\ BatchSlice(rs_batch.n_sub_batch, NLen, i) =
                        AddOffset(d.n_sub_batch, SumBefore(NextSubgraph, i))
                  /\ BatchSlice(rs_batch.e_sub_batch, ELen, i) =
                        AddOffset(d.e_sub_batch, SumBefore(NextSubgraph, i))
                  /\ BatchSlice(rs_batch.n_id, NLen, i) =
                        AddOffset(d.n_id, SumBefore(NumNodes, i))
                  /\ BatchSlice(rs_batch.e_id, ELen, i) =
                        AddOffset(d.e_id, SumBefore(NumEdges_, i))
                  /\ BatchSlice(rs_batch.sub_edge_index.row, ELen, i) =
                        AddOffset(d.sub_edge_index.row, SumBefore(NLen, i))
                  /\ BatchSlice(rs_batch.sub_edge_index.col, ELen, i) =
                        AddOffset(d.sub_edge_index.col, SumBefore(NLen, i))
        /\ \A i, j \in 1..Len(rs_list) :
              i # j =>
                  (SeqSet(BatchSlice(rs_batch.n_sub_batch, NLen, i))
                     \cup SeqSet(BatchSlice(rs_batch.e_sub_batch, ELen, i)))
                  \cap
                  (SeqSet(BatchSlice(rs_batch.n_sub_batch, NLen, j))
                     \cup SeqSet(BatchSlice(rs_batch.e_sub_batch, ELen, j)))
                  = {}
        /\ \A q \in 1..Len(rs_batch.e_id) :
              /\ At(rs_batch.n_sub_batch, rs_batch.sub_edge_index.row[q]) =
                    rs_batch.e_sub_batch[q]
              /\ At(rs_batch.n_sub_batch, rs_batch.sub_edge_index.col[q]) =
                    rs_batch.e_sub_batch[q]

\* C10 witness: two graphs with edges were collated, the second of them
\* getting the subgraph ids after those of the first.
C10_Witness ==
    /\ rs_batch.status = "ok"
    /\ rs_hops = 1
    /\ rs_list[1].num_nodes = 2
    /\ rs_list[1].row = <<0>>
    /\ rs_list[1].col = <<1>>
    /\ rs_list[2].num_nodes = 3
    /\ Len(rs_list[2].e_id) > 0
    /\ rs_batch.n_sub_batch[Len(rs_list[1].n_id) + 1] = 2

(***************************************************************************)
(* transforms/rooted_subgraph.py: RootedSubgraphData.map_data              *)
(*                                                                         *)
(* A data object is a function from the keys it stores to their values.    *)
(* x holds one row per node, edge_attr one row per edge, y one row for the *)
(* graph, face one row with one column per node.                           *)
(***************************************************************************)
earlyVars == <<hcVars, cscVars, bipVars, rsVars, mpVars>>

\* the keys a caller may store beside edge_index
OptionalKeys == {"num_nodes", "x", "edge_attr", "y", "face"}

\* the keys RootedSubgraph.forward adds
SubgraphKeys == {"sub_edge_index", "n_id", "e_id", "n_sub_batch", "e_sub_batch"}

\* Data.__cat_dim__: the last dimension for face and for keys that contain
\* 'index', else the first
Data__cat_dim__(key) ==
    IF key \in {"face", "edge_index", "sub_edge_index"} THEN -1 ELSE 0

\* value.shape[dim] of a tensor of one or two dimensions
TensorSize(value, dim) == IF dim = 0 THEN Len(value) ELSE Len(value[1])

\* 1 + the largest node index of an edge_index, 0 without edges
MaxIndexPlusOne(edge_index) ==
    LET ids == SeqSet(edge_index.row) \cup SeqSet(edge_index.col)
    IN  IF ids = {} THEN 0 ELSE 1 + (CHOOSE m \in ids : \A i \in ids : i <= m)

\* Data.num_nodes: the stored value, else the number of rows of x, else the
\* number inferred from edge_index
Data_num_nodes(d) ==
    IF "num_nodes" \in DOMAIN d THEN d["num_nodes"]
    ELSE IF "x" \in DOMAIN d THEN Len(d["x"])
    ELSE MaxIndexPlusOne(d["edge_index"])

Data_num_edges(d) == Len(d["edge_index"].row)

\* 'edge' in key
ContainsEdge(key) == key \in {"edge_attr", "edge_index", "sub_edge_index"}

\* Data.is_node_attr / Data.is_edge_attr for a key that holds a tensor
Data_is_node_attr(d, key) ==
    /\ TensorSize(d[key], Data__cat_dim__(key)) = Data_num_nodes(d)
    /\ ~ContainsEdge(key)

Data_is_edge_attr(d, key) ==
    /\ TensorSize(d[key], Data__cat_dim__(key)) = Data_num_edges(d)
    /\ ContainsEdge(key)

\* paddle.index_select(value, index, axis=dim)
index_select(value, index, dim) ==
    IF dim = 0 THEN Gather(value, index)
    ELSE [r \in 1..Len(value) |-> Gather(value[r], index)]

\* lines 51-62: the value map_data stores under a key it keeps
map_data_value(self, key) ==
    IF key = "num_nodes" THEN Len(self["n_id"])
    ELSE IF key = "edge_index" THEN self["sub_edge_index"]
    ELSE IF key = "n_sub_batch" THEN self[key]
    ELSE IF Data_is_node_attr(self, key)
         THEN index_select(self[key], self["n_id"], Data__cat_dim__(key))
    ELSE IF Data_is_edge_attr(self, key)
         THEN index_select(self[key], self["e_id"], Data__cat_dim__(key))
    ELSE self[key]

\* lines 43-64: map_data works on a copy; the result holds the object the
\* method was called on, after the call, and the object returned
RootedSubgraphData_map_data(self) ==
    [status |-> "ok",
     self   |-> self,
     data   |-> [key \in DOMAIN self \ {"sub_edge_index", "n_id", "e_id",
                                       "e_sub_batch"} |->
                    map_data_value(self, key)]]

\* The value a caller stores under an optional key of a graph g.
StoredValue(g, key) ==
    CASE key = "num_nodes" -> g.num_nodes
      [] key = "x" -> [v \in 1..g.num_nodes |-> <<"x", v - 1>>]
      [] key = "edge_attr" -> [e \in 1..Len(g.row) |-> <<"edge_attr", e - 1>>]
      [] key = "y" -> << <<"y", 0>> >>
      [] key = "face" -> << [v \in 1..g.num_nodes |-> <<"face", v - 1>>] >>

\* The data object of the graph g that stores the optional keys ks.
DataOf(g, ks) ==
    [key \in ks \cup {"edge_index"} |->
        IF key = "edge_index" THEN [row |-> g.row, col |-> g.col]
        ELSE StoredValue(g, key)]

\* lines 102-106 on a data object: the keys of data and the five keys of out
RootedSubgraphData_from(d, out) ==
    [key \in DOMAIN d \cup SubgraphKeys |->
        IF key = "sub_edge_index" THEN out.sub_edge_index
        ELSE IF key = "n_id" THEN out.n_id
        ELSE IF key = "e_id" THEN out.e_id
        ELSE IF key = "n_sub_batch" THEN out.n_sub_batch
        ELSE IF key = "e_sub_batch" THEN out.e_sub_batch
        ELSE d[key]]

NoMapData == [status |-> "none"]

InitMd == md_in = NoMapData /\ md_out = NoMapData

\* RootedEgoNets(num_hops)(data) for a data object whose number of nodes is
\* stored, given by x or inferred from edge_index
MapData_Forward ==
    /\ md_in.status = "none"
    /\ \E g \in MapGraphs, ks \in SUBSET OptionalKeys, num_hops \in 0..1 :
          LET d == DataOf(g, ks)
              out == RootedEgoNets_extract(g, num_hops,
                         [raises |-> TRUE, garbage |-> 0])
          IN  /\ Data_num_nodes(d) = g.num_nodes
              /\ md_in' = [status |-> "ok",
                            self |-> RootedSubgraphData_from(d, out)]
    /\ UNCHANGED <<md_out, earlyVars, rwVars, pdVars, dgVars>>

\* one call of map_data
MapData_Call ==
    /\ md_in.status = "ok"
    /\ md_out.status = "none"
    /\ md_out' = RootedSubgraphData_map_data(md_in.self)
    /\ UNCHANGED <<md_in, earlyVars, rwVars, pdVars, dgVars>>

NextMapData == MapData_Forward \/ MapData_Call

StartMd == InitMd /\ IdleHC /\ IdleCsc /\ IdleBip /\ IdleRs /\ IdleMp
             /\ IdleRw /\ IdlePd /\ IdleDg

SpecMapData ==
    /\ StartMd
    /\ [][NextMapData]_vars

(***************************************************************************)
(* map_data: claims                                                        *)
(***************************************************************************)
\* the attributes of md_in are mapped to the subgraphs in md_out.data
AttributesMapped ==
    LET self == md_in.self
        data == md_out.data
        n_id == self["n_id"]
        e_id == self["e_id"]
    IN  /\ data["edge_index"] = self["sub_edge_index"]
        /\ "x" \in DOMAIN self =>
              data["x"] = [p \in 1..Len(n_id) |-> <<"x", n_id[p]>>]
        /\ "face" \in DOMAIN self =>
              data["face"] = << [p \in 1..Len(n_id) |-> <<"face", n_id[p]>>] >>
        /\ "edge_attr" \in DOMAIN self =>
              data["edge_attr"] =
                  [q \in 1..Len(e_id) |-> <<"edge_attr", e_id[q]>>]
        /\ DOMAIN data = DOMAIN self \ {"sub_edge_index", "n_id", "e_id",
                                        "e_sub_batch"}
        /\ data["n_sub_batch"] = self["n_sub_batch"]
        /\ md_out.self = self

\* C11: the object returned by map_data has num_nodes = len(n_id),
\* edge_index = sub_edge_index, the node attributes gathered by n_id and the
\* edge attributes by e_id, keeps n_sub_batch and drops sub_edge_index, n_id,
\* e_id and e_sub_batch; the object it was called on is unchanged.
C11_MapData ==
    md_out.status = "ok" =>
        /\ Data_num_nodes(md_out.data) = Len(md_in.self["n_id"])
        /\ AttributesMapped

\* map_data on an object that stores num_nodes or x: all of C11 holds
MapDataKnownNodes ==
    ( /\ md_out.status = "ok"
      /\ {"num_nodes", "x"} \cap DOMAIN md_in.self # {} ) =>
        /\ Data_num_nodes(md_out.data) = Len(md_in.self["n_id"])
        /\ AttributesMapped

\* map_data on any object: everything but the number of nodes holds
MapDataAttributes == md_out.status = "ok" => AttributesMapped

(***************************************************************************)
(* transforms/rooted_subgraph.py: RootedRWSubgraph                         *)
(***************************************************************************)
\* the largest walk_length and the largest repeat
MaxWalkLength == 2
MaxRepeat == 2

\* lines 166-167: arange(num_nodes) with every entry repeated `repeat` times
RwStart(num_nodes, repeat) ==
    [i \in 1..(num_nodes * repeat) |-> (i - 1) \div repeat]

\* the nodes a walk at v may step to: the targets of the edges leaving v, or
\* v itself when no edge leaves it
WalkSteps(data, v) ==
    LET targets == {data.col[e] : e \in {x \in 1..Len(data.row) : data.row[x] = v}}
    IN  IF targets = {} THEN {v} ELSE targets

\* utils.random_walk for one start node: the walks of walk_length steps,
\* the start node first
RECURSIVE WalksFrom(_, _, _)
WalksFrom(data, v, walk_length) ==
    IF walk_length = 0 THEN { <<v>> }
    ELSE { <<v>> \o w : w \in UNION { WalksFrom(data, u, walk_length - 1) :
                                        u \in WalkSteps(data, v) } }

\* utils.random_walk(row, col, start, walk_length): the possible results, one
\* walk per entry of start
RECURSIVE random_walk(_, _, _)
random_walk(data, start, walk_length) ==
    IF start = <<>> THEN { <<>> }
    ELSE { <<w>> \o rest :
             w \in WalksFrom(data, start[1], walk_length),
             rest \in random_walk(data, Tail(start), walk_length) }

\* a mutant: the last node of every walk is left out of the mask
RwNodeMaskShort(num_nodes, start, walk) ==
    [s \in 1..num_nodes |->
        [v \in 1..num_nodes |->
            \E i \in 1..Len(walk) :
                /\ start[i] = s - 1
                /\ \E t \in 1..(Len(walk[i]) - 1) : walk[i][t] = v - 1]]

\* lines 171-173: n_mask[start, walk] = True, start repeated for every
\* position of the walk
RwNodeMask(num_nodes, start, walk) ==
    [s \in 1..num_nodes |->
        [v \in 1..num_nodes |->
            \E i \in 1..Len(walk) :
                /\ start[i] = s - 1
                /\ \E t \in 1..Len(walk[i]) : walk[i][t] = v - 1]]

\* lines 156-175: RootedRWSubgraph.extract for one result of random_walk
RootedRWSubgraph_extract(data, walk_length, repeat, walk, oob) ==
    LET start == RwStart(data.num_nodes, repeat)
        n_mask == RwNodeMask(data.num_nodes, start, walk)
    IN  RootedSubgraph_map(data, n_mask, oob)

NoRw == [status |-> "none"]

InitRw == rw_in = NoRw /\ rw_out = NoRw

\* RootedRWSubgraph(walk_length, repeat)
RootedRWSubgraph__init__ ==
    /\ rw_in.status = "none"
    /\ \E walk_length \in 0..MaxWalkLength, repeat \in 1..MaxRepeat :
          rw_in' = [status |-> "ready", walk_length |-> walk_length,
                    repeat |-> repeat]
    /\ UNCHANGED <<rw_out, earlyVars, mdVars, pdVars, dgVars>>

\* the transform applied to a graph, for every result of the random walks
RootedRWSubgraph_forward ==
    /\ rw_in.status = "ready"
    /\ rw_out.status = "none"
    /\ \E data \in BatchGraphs :
       \E walk \in random_walk(data, RwStart(data.num_nodes, rw_in.repeat),
                               rw_in.walk_length) :
       \E raises \in BOOLEAN, garbage \in 0..(data.num_nodes - 1) :
          LET out == RootedRWSubgraph_extract(data, rw_in.walk_length,
                         rw_in.repeat, walk,
                         [raises |-> raises, garbage |-> garbage])
          IN  rw_out' = [status |-> out.status, walk |-> walk,
                         d |-> RootedSubgraph_forward(data, out)]
    /\ UNCHANGED <<rw_in, earlyVars, mdVars, pdVars, dgVars>>

NextRw == RootedRWSubgraph__init__ \/ RootedRWSubgraph_forward

StartRw == InitRw /\ IdleHC /\ IdleCsc /\ IdleBip /\ IdleRs /\ IdleMp
             /\ IdleMd /\ IdlePd /\ IdleDg

SpecRw ==
    /\ StartRw
    /\ [][NextRw]_vars

(***************************************************************************)
(* RootedRWSubgraph: claims                                                *)
(***************************************************************************)
\* the nodes reached from s along at most k edges of d
RECURSIVE ReachedWithin(_, _, _)
ReachedWithin(d, s, k) ==
    IF k = 0 THEN {s}
    ELSE LET near == ReachedWithin(d, s, k - 1)
         IN  near \cup {d.col[e] : e \in {x \in 1..Len(d.row) : d.row[x] \in near}}

\* the nodes visited by the walks started at s
Visited(s) ==
    {rw_out.walk[i][t] :
        i \in {(s * rw_in.repeat) + j : j \in 1..rw_in.repeat},
        t \in 1..(rw_in.walk_length + 1)}

\* C12: whatever the random walks are, the nodes of the subgraph of every
\* root s are the nodes visited by the walks started at s, s is among them,
\* all of them are reached from s within walk_length steps, and the edges of
\* the subgraph are the edges of the graph between them.
C12_RWSubgraph ==
    rw_out.status # "none" =>
        /\ rw_out.status = "ok"
        /\ \A s \in 0..(rw_out.d.num_nodes - 1) :
              /\ SubgraphNodes(rw_out.d, s) = Visited(s)
              /\ s \in SubgraphNodes(rw_out.d, s)
              /\ SubgraphNodes(rw_out.d, s) \subseteq
                    ReachedWithin(rw_out.d, s, rw_in.walk_length)
              /\ SubgraphEdges(rw_out.d, s) =
                    {e \in 0..(Len(rw_out.d.row) - 1) :
                        /\ At(rw_out.d.row, e) \in SubgraphNodes(rw_out.d, s)
                        /\ At(rw_out.d.col, e) \in SubgraphNodes(rw_out.d, s)}

\* C12 witness: on the graph 0 -> 0, 0 -> 1 two walks of length 2 started at
\* 0 went apart; the subgraph of 0 holds both nodes and both edges.
C12_Witness ==
    /\ rw_out.status = "ok"
    /\ rw_in.walk_length = 2
    /\ rw_in.repeat = 2
    /\ rw_out.d.row = <<0, 0>>
    /\ rw_out.d.col = <<0, 1>>
    /\ rw_out.walk[1] = <<0, 0, 0>>
    /\ rw_out.walk[2] = <<0, 0, 1>>
    /\ SubgraphNodes(rw_out.d, 0) = {0, 1}
    /\ SubgraphEdges(rw_out.d, 0) = {0, 1}
    /\ SubgraphNodes(rw_out.d, 1) = {1}

(***************************************************************************)
(* nn/parameter_dict.py: ParameterDict                                     *)
(*                                                                         *)
(* A string is a sequence of characters.  The characters are the ones the  *)
(* key translation looks at, an ordinary letter "x", and "eval", which     *)
(* stands for the four letters of a name of dir(paddle.nn.LayerDict).  A   *)
(* key is a string or a tuple of strings.                                  *)
(***************************************************************************)
\* the longest string key, the longest element of a tuple key
MaxKeyLen == 3
MaxPartLen == 1

Chars == {".", "#", "<", ">", "_", "x", "eval"}

\* line 13: the names of the class attributes, among the strings above
CLASS_ATTRS == { <<"eval">> }

Str(s) == [tuple |-> FALSE, s |-> s]
Tuple(parts) == [tuple |-> TRUE, parts |-> parts]

\* str.replace(a, b) for single characters
Replace(s, a, b) == [i \in 1..Len(s) |-> IF s[i] = a THEN b ELSE s[i]]

Sep == <<"_", "_", "_">>

\* sep.join(parts)
RECURSIVE Join(_)
Join(parts) ==
    IF parts = <<>> THEN <<>>
    ELSE IF Len(parts) = 1 THEN parts[1]
    ELSE parts[1] \o Sep \o Join(Tail(parts))

\* the positions where '___' starts in s
SepAt(s) == {i \in 1..(Len(s) - 2) : SubSeq(s, i, i + 2) = Sep}

\* s.split('___'): the leftmost separator first
RECURSIVE Split(_)
Split(s) ==
    IF SepAt(s) = {} THEN <<s>>
    ELSE LET i == CHOOSE j \in SepAt(s) : \A k \in SepAt(s) : j <= k
         IN  <<SubSeq(s, 1, i - 1)>> \o Split(SubSeq(s, i + 3, Len(s)))

\* key[0] == '<' and key[-1] == '>'; key[0] of the empty string raises
Bracketed(s) == s[1] = "<" /\ s[Len(s)] = ">"

\* key[1:-1]
Inner(s) == SubSeq(s, 2, Len(s) - 1)

\* lines 28-39: to_internal_key
to_internal_key(key) ==
    IF key.tuple /\ Len(key.parts) <= 1 THEN [status |-> "AssertionError"]
    ELSE LET k1 == IF key.tuple THEN <<"<">> \o Join(key.parts) \o <<">">>
                   ELSE key.s
             k2 == IF k1 \in CLASS_ATTRS THEN <<"<">> \o k1 \o <<">">> ELSE k1
         IN  [status |-> "ok", key |-> Replace(k2, ".", "#")]

\* lines 42-51: to_external_key
to_external_key(key) ==
    LET k1 == Replace(key, "#", ".")
    IN  IF k1 = <<>> THEN [status |-> "IndexError"]
        ELSE LET k2 == IF Bracketed(k1) /\ Inner(k1) \in CLASS_ATTRS
                       THEN Inner(k1) ELSE k1
             IN  IF k2 = <<>> THEN [status |-> "IndexError"]
                 ELSE IF Bracketed(k2) /\ SepAt(k2) # {}
                 THEN [status |-> "ok", key |-> Tuple(Split(Inner(k2)))]
                 ELSE [status |-> "ok", key |-> Str(k2)]

\* paddle.nn.LayerDict: the entries in the order of insertion; storing under
\* a key that is present replaces its value
LayerDict_contains(store, k) == \E i \in 1..Len(store) : store[i].key = k

LayerDict_set(store, k, v) ==
    IF LayerDict_contains(store, k)
    THEN [i \in 1..Len(store) |->
            IF store[i].key = k THEN [key |-> k, value |-> v] ELSE store[i]]
    ELSE Append(store, [key |-> k, value |-> v])

LayerDict_get(store, k) ==
    IF LayerDict_contains(store, k)
    THEN [status |-> "ok",
          value |-> store[CHOOSE i \in 1..Len(store) : store[i].key = k].value]
    ELSE [status |-> "KeyError"]

\* lines 15-25: ParameterDict(parameters)
ParameterDict__init__(parameters) ==
    [i \in 1..Len(parameters) |->
        [key |-> to_internal_key(parameters[i].key).key,
         value |-> parameters[i].value]]

\* lines 56-57: d[key] = parameter
ParameterDict__setitem__(store, key, parameter) ==
    LET k == to_internal_key(key)
    IN  IF k.status # "ok" THEN [status |-> k.status, store |-> store]
        ELSE [status |-> "ok", store |-> LayerDict_set(store, k.key, parameter)]

\* lines 53-54: d[key]
ParameterDict__getitem__(store, key) ==
    LET k == to_internal_key(key)
    IN  IF k.status # "ok" THEN [status |-> k.status]
        ELSE LayerDict_get(store, k.key)

\* lines 62-63: key in d
ParameterDict__contains__(store, key) ==
    LET k == to_internal_key(key)
    IN  IF k.status # "ok" THEN [status |-> k.status]
        ELSE [status |-> "ok", value |-> LayerDict_contains(store, k.key)]

\* lines 65-66: keys()
ParameterDict_keys(store) ==
    IF \E i \in 1..Len(store) : to_external_key(store[i].key).status # "ok"
    THEN [status |-> "IndexError"]
    ELSE [status |-> "ok",
          value |-> [i \in 1..Len(store) |-> to_external_key(store[i].key).key]]

\* lines 68-69: items()
ParameterDict_items(store) ==
    IF \E i \in 1..Len(store) : to_external_key(store[i].key).status # "ok"
    THEN [status |-> "IndexError"]
    ELSE [status |-> "ok",
          value |-> [i \in 1..Len(store) |->
                       <<to_external_key(store[i].key).key, store[i].value>>]]

\* The keys of the callers: the strings of at most MaxKeyLen characters and
\* the pairs of strings of at most MaxPartLen characters.
StringKeys == { Str(s) : s \in SeqsUpTo(Chars, MaxKeyLen) }
TupleKeys ==
    { Tuple(<<a, b>>) : a, b \in SeqsUpTo(Chars, MaxPartLen) }
Keys == StringKeys \cup TupleKeys

\* The mappings given to the constructor.
InitialParameters ==
    { <<>>,
      << [key |-> Str(<<"x">>), value |-> 1] >>,
      << [key |-> Str(<<"x", ".", "x">>), value |-> 1] >>,
      << [key |-> Tuple(<< <<"x">>, <<"x">> >>), value |-> 1] >> }

NoPd == [status |-> "none"]

InitPd == pd_in = NoPd /\ pd_out = NoPd

\* ParameterDict(parameters)
PD_Construct ==
    /\ pd_in.status = "none"
    /\ \E parameters \in InitialParameters :
          /\ pd_in' = [status |-> "new"]
          /\ pd_out' = [status |-> "new",
                        store |-> ParameterDict__init__(parameters)]
    /\ UNCHANGED <<earlyVars, mdVars, rwVars, dgVars>>

\* d[key] = 2
PD_SetItem ==
    /\ pd_in.status = "new"
    /\ \E key \in Keys :
          LET r == ParameterDict__setitem__(pd_out.store, key, 2)
          IN  /\ pd_in' = [status |-> "set", key |-> key, value |-> 2]
              /\ pd_out' = [status |-> r.status, store |-> r.store]
    /\ UNCHANGED <<earlyVars, mdVars, rwVars, dgVars>>

\* key in d, d[key], keys() and items() after d[key] = 2
PD_ReadBack ==
    /\ pd_in.status = "set"
    /\ pd_out.status = "ok"
    /\ pd_in' = [pd_in EXCEPT !.status = "read"]
    /\ pd_out' = [status |-> "read", store |-> pd_out.store,
                  contains |-> ParameterDict__contains__(pd_out.store, pd_in.key),
                  getitem |-> ParameterDict__getitem__(pd_out.store, pd_in.key),
                  keys |-> ParameterDict_keys(pd_out.store),
                  items |-> ParameterDict_items(pd_out.store)]
    /\ UNCHANGED <<earlyVars, mdVars, rwVars, dgVars>>

NextPd == PD_Construct \/ PD_SetItem \/ PD_ReadBack

StartPd == InitPd /\ IdleHC /\ IdleCsc /\ IdleBip /\ IdleRs /\ IdleMp
             /\ IdleMd /\ IdleRw /\ IdleDg

SpecPd ==
    /\ StartPd
    /\ [][NextPd]_vars

(***************************************************************************)
(* ParameterDict: claims                                                   *)
(***************************************************************************)
\* the key k, stored with the value v, is read back as it was inserted
ReadBack(k, v) ==
    LET internal == to_internal_key(k)
    IN  /\ internal.status = "ok"
        /\ \A i \in 1..Len(internal.key) : internal.key[i] # "."
        /\ to_external_key(internal.key) = [status |-> "ok", key |-> k]
        /\ pd_out.contains = [status |-> "ok", value |-> TRUE]
        /\ pd_out.getitem = [status |-> "ok", value |-> v]
        /\ pd_out.keys.status = "ok"
        /\ k \in SeqSet(pd_out.keys.value)
        /\ pd_out.items.status = "ok"
        /\ <<k, v>> \in SeqSet(pd_out.items.value)

\* C13: for every key k that is a string or a tuple of at least two strings,
\* to_internal_key(k) has no '.', to_external_key gives k back, and after
\* d[k] = v the key is in d, d[k] is v, and keys() and items() list k as it
\* was inserted.
C13_KeyRoundTrip ==
    pd_out.status = "read" => ReadBack(pd_in.key, pd_in.value)

\* a string without '#', '<', '>' and '_', or a tuple of such strings
PlainString(s) == \A i \in 1..Len(s) : s[i] \notin {"#", "<", ">", "_"}

PlainKey(k) ==
    IF k.tuple THEN \A i \in 1..Len(k.parts) : PlainString(k.parts[i])
    ELSE k.s # <<>> /\ PlainString(k.s)

\* the round trip holds for the keys made of letters and dots
PlainKeyRoundTrip ==
    (pd_out.status = "read" /\ PlainKey(pd_in.key)) =>
        ReadBack(pd_in.key, pd_in.value)

(***************************************************************************)
(* nn/models/deepgcn.py: DeepGCNLayer                                      *)
(*                                                                         *)
(* The tensor returned by forward is the sequence of the operations        *)
(* applied to x, in the order of their application.  The entry of the      *)
(* convolution tells how it was called and the stop_gradient of its input, *)
(* the entry of the dropout its arguments.                                 *)
(***************************************************************************)
\* str.lower() on the letters of the block names
LowerChar(c) ==
    CASE c = "R" -> "r" [] c = "E" -> "e" [] c = "S" -> "s" [] c = "D" -> "d"
      [] c = "N" -> "n" [] c = "P" -> "p" [] c = "L" -> "l" [] c = "A" -> "a"
      [] c = "I" -> "i" [] OTHER -> c

Lower(str) == [i \in 1..Len(str) |-> LowerChar(str[i])]

\* line 65: the names of the blocks
Blocks ==
    { <<"r", "e", "s", "+">>, <<"r", "e", "s">>, <<"d", "e", "n", "s", "e">>,
      <<"p", "l", "a", "i", "n">> }

\* lines 50-67: DeepGCNLayer(conv, norm, act, block, dropout, ckpt_grad)
DeepGCNLayer__init__(conv, norm, act, block, dropout, ckpt_grad) ==
    IF Lower(block) \notin Blocks THEN [status |-> "AssertionError"]
    ELSE [status |-> "ok", conv |-> conv, norm |-> norm, act |-> act,
          block |-> Lower(block), dropout |-> dropout,
          ckpt_grad |-> ckpt_grad]

Op(name) == [op |-> name]

\* a mutant: the activation comes before the normalization
ActNorm(self) ==
    (IF self.act # "None" THEN <<Op("act")>> ELSE <<>>)
    \o (IF self.norm # "None" THEN <<Op("norm")>> ELSE <<>>)

\* lines 81-84 and 100-103: norm, then act, each one only if it is not None
NormAct(self) ==
    (IF self.norm # "None" THEN <<Op("norm")>> ELSE <<>>)
    \o (IF self.act # "None" THEN <<Op("act")>> ELSE <<>>)

\* lines 85 and 112: F.dropout(h, p=self.dropout, training=self.training)
Dropout(self, training) ==
    [op |-> "dropout", p |-> self.dropout, training |-> training]

\* the stop_gradient of a tensor after norm and act: a norm with trainable
\* parameters makes its output take part in the gradient computation
StopGradientAfter(self, stop_gradient) ==
    stop_gradient /\ self.norm # "trainable"

\* lines 86-90 and 95-99: the convolution, through ModelCheckpoint or called
\* directly; calling a conv that is None raises
DeepGCN_conv(self, stop_gradient) ==
    IF self.conv # "None" /\ self.ckpt_grad /\ stop_gradient
    THEN [status |-> "ok",
          ops |-> <<[op |-> "conv", via |-> "ModelCheckpoint",
                     stop_gradient |-> stop_gradient]>>]
    ELSE IF self.conv = "None" THEN [status |-> "TypeError", ops |-> <<>>]
    ELSE [status |-> "ok",
          ops |-> <<[op |-> "conv", via |-> "direct",
                     stop_gradient |-> stop_gradient]>>]

\* lines 105-110: the skip connection of the blocks other than res+
Skip(self) ==
    IF self.block = <<"r", "e", "s">> THEN <<Op("x + h")>>
    ELSE IF self.block = <<"d", "e", "n", "s", "e">>
    THEN <<Op("concat([x, h], -1)")>>
    ELSE <<>>

\* lines 74-112: forward(x) in training or evaluation mode
DeepGCNLayer_forward(self, x_stop_gradient, training) ==
    IF self.block = <<"r", "e", "s", "+">>
    THEN LET pre == NormAct(self) \o <<Dropout(self, training)>>
             c == DeepGCN_conv(self, StopGradientAfter(self, x_stop_gradient))
         IN  IF c.status # "ok" THEN [status |-> c.status, h |-> pre]
             ELSE [status |-> "ok", h |-> pre \o c.ops \o <<Op("x + h")>>]
    ELSE LET c == DeepGCN_conv(self, x_stop_gradient)
         IN  IF c.status # "ok" THEN [status |-> c.status, h |-> <<>>]
             ELSE [status |-> "ok",
                   h |-> c.ops \o NormAct(self) \o Skip(self)
                         \o <<Dropout(self, training)>>]

\* The block names of the callers: the four names in lower, upper and mixed
\* case, and names that are none of them.
BlockNames ==
    { <<"r", "e", "s", "+">>, <<"R", "E", "S", "+">>, <<"r", "e", "s">>,
      <<"R", "e", "s">>, <<"d", "e", "n", "s", "e">>,
      <<"D", "E", "N", "S", "E">>, <<"p", "l", "a", "i", "n">>,
      <<"P", "l", "a", "i", "n">>, <<"r", "e", "s", "2">>, <<"+">>, <<>> }

NoDg == [status |-> "none"]

InitDg == dg_in = NoDg /\ dg_out = NoDg

\* DeepGCNLayer(conv, norm, act, block, dropout, ckpt_grad)
DG_Construct ==
    /\ dg_in.status = "none"
    /\ \E conv \in {"None", "conv"}, norm \in {"None", "trainable", "frozen"},
          act \in {"None", "act"}, block \in BlockNames,
          dropout \in {"0.0", "0.5"}, ckpt_grad \in BOOLEAN :
          /\ dg_in' = [status |-> "new", block |-> block,
                       self |-> DeepGCNLayer__init__(conv, norm, act, block,
                                                     dropout, ckpt_grad)]
          /\ dg_out' = NoDg
    /\ UNCHANGED <<earlyVars, mdVars, rwVars, pdVars>>

\* forward(x)
DG_Forward ==
    /\ dg_in.status = "new"
    /\ dg_in.self.status = "ok"
    /\ \E x_stop_gradient \in BOOLEAN, training \in BOOLEAN :
          /\ dg_in' = [dg_in EXCEPT !.status = "called"]
          /\ dg_out' = DeepGCNLayer_forward(dg_in.self, x_stop_gradient,
                                            training)
    /\ UNCHANGED <<earlyVars, mdVars, rwVars, pdVars>>

NextDg == DG_Construct \/ DG_Forward

StartDg == InitDg /\ IdleHC /\ IdleCsc /\ IdleBip /\ IdleRs /\ IdleMp
             /\ IdleMd /\ IdleRw /\ IdlePd

SpecDg ==
    /\ StartDg
    /\ [][NextDg]_vars

(***************************************************************************)
(* DeepGCNLayer: claims                                                    *)
(***************************************************************************)
\* the names of the operations of h, in their order
OpNames(h) == [i \in 1..Len(h) |-> h[i].op]

\* the operations in s that the layer has: a norm or act that is None is
\* left out
RECURSIVE Present(_, _)
Present(self, s) ==
    IF s = <<>> THEN <<>>
    ELSE IF \/ (Head(s) = "norm" /\ self.norm = "None")
            \/ (Head(s) = "act" /\ self.act = "None")
         THEN Present(self, Tail(s))
         ELSE <<Head(s)>> \o Present(self, Tail(s))

\* the documented order of the block named by the lower-case name
Documented(name) ==
    CASE name = <<"r", "e", "s", "+">> ->
            <<"norm", "act", "dropout", "conv", "x + h">>
      [] name = <<"r", "e", "s">> ->
            <<"conv", "norm", "act", "x + h", "dropout">>
      [] name = <<"d", "e", "n", "s", "e">> ->
            <<"conv", "norm", "act", "concat([x, h], -1)", "dropout">>
      [] name = <<"p", "l", "a", "i", "n">> ->
            <<"conv", "norm", "act", "dropout">>

\* C14: forward applies norm, act, dropout, conv and the addition of x in
\* that order for res+, and conv, norm, act, the skip step (x + h for res,
\* the concatenation [x, h] for dense, none for plain) and dropout in that
\* order for the other blocks, leaving out a norm or act that is None; the
\* block name is matched without regard to case and any other name is
\* rejected by the constructor.
C14_ForwardOrder ==
    /\ dg_in.status # "none" =>
          (dg_in.self.status = "ok") = (Lower(dg_in.block) \in Blocks)
    /\ (dg_in.status = "called" /\ dg_out.status = "ok") =>
          OpNames(dg_out.h) =
              Present(dg_in.self, Documented(Lower(dg_in.block)))

\* C14 witness: a layer made with the block name "DENSE" and without act
\* returned the dropout of [x, norm(conv(x))].
C14_Witness ==
    /\ dg_in.status = "called"
    /\ dg_out.status = "ok"
    /\ dg_in.block = <<"D", "E", "N", "S", "E">>
    /\ dg_in.self.act = "None"
    /\ OpNames(dg_out.h) = <<"conv", "norm", "concat([x, h], -1)", "dropout">>

\* the entry of the convolution in h
ConvEntry(h) == h[CHOOSE i \in 1..Len(h) : h[i].op = "conv"]

\* C15: with ckpt_grad True and a conv that is not None, a forward call
\* whose conv input takes part in the gradient computation (stop_gradient
\* False) evaluates the conv through the checkpoint wrapper, in the res+
\* branch and in the other branch; with ckpt_grad False the conv is always
\* called directly.
C15_Checkpointed ==
    (dg_in.status = "called" /\ dg_out.status = "ok") =>
        /\ (dg_in.self.ckpt_grad /\ ~ConvEntry(dg_out.h).stop_gradient) =>
              ConvEntry(dg_out.h).via = "ModelCheckpoint"
        /\ ~dg_in.self.ckpt_grad => ConvEntry(dg_out.h).via = "direct"

\* what the code does: with ckpt_grad True the conv goes through
\* ModelCheckpoint exactly when its input has stop_gradient True
CheckpointedWhenStopped ==
    (dg_in.status = "called" /\ dg_out.status = "ok") =>
        (ConvEntry(dg_out.h).via = "ModelCheckpoint") =
            (dg_in.self.ckpt_grad /\ ConvEntry(dg_out.h).stop_gradient)

(***************************************************************************)
(* HeteroConv.forward: the arguments of the convs                          *)
(***************************************************************************)
\* what the dictionary id with the given keys supplies to the relation
\* edge_type: the value of the edge type, else the value of the source type
\* of a relation within one node type, else the pair of the values of the
\* source and the destination type
Supplied(id, keys, edge_type) ==
    LET src == edge_type[1]
        dst == edge_type[3]
        Get(t) == IF <<t>> \in keys THEN <<t>> ELSE <<"None">>
    IN  IF edge_type \in keys
        THEN [tag |-> "value", id |-> id, a |-> edge_type, b |-> <<>>]
        ELSE IF src = dst /\ <<src>> \in keys
        THEN [tag |-> "value", id |-> id, a |-> <<src>>, b |-> <<>>]
        ELSE [tag |-> "pair", id |-> id, a |-> Get(src), b |-> Get(dst)]

\* the dictionary holds the edge type, its source type or its destination
\* type
Keyed(keys, edge_type) ==
    edge_type \in keys \/ <<edge_type[1]>> \in keys \/ <<edge_type[3]>> \in keys

\* the call c got one argument per dictionary, each in its place
ArgumentsInPlace(c) ==
    /\ Len(c.args) = Len(hc_in.args_dict)
    /\ \A i \in 1..Len(c.args) :
          c.args[i] = Supplied(i, hc_in.args_dict[i].keys, c.et)
    /\ Len(c.kwargs) = Len(hc_in.kwargs_dict)
    /\ \A i \in 1..Len(c.kwargs) :
          LET name == hc_in.kwargs_dict[i].name
          IN  /\ c.kwargs[i].name \o <<"_", "d", "i", "c", "t">> = name
              /\ c.kwargs[i].val =
                    Supplied(name, hc_in.kwargs_dict[i].keys, c.et)

\* C16: every invoked conv receives exactly one positional argument per
\* positional dictionary, the i-th dictionary supplying the i-th argument
\* (the value of the edge type, else of the source type when source and
\* destination are equal, else the pair of both), and one keyword argument,
\* named without "_dict", per keyword dictionary.
C16_DispatchPositions ==
    hc_out.status = "ok" =>
        \A j \in 1..Len(hc_out.calls) : ArgumentsInPlace(hc_out.calls[j])

\* the arguments are in place in the calls of the relations for which every
\* dictionary holds the edge type, the source type or the destination type
DispatchOfKeyedDicts ==
    hc_out.status = "ok" =>
        \A j \in 1..Len(hc_out.calls) :
            LET c == hc_out.calls[j]
            IN  ( /\ \A i \in 1..Len(hc_in.args_dict) :
                        Keyed(hc_in.args_dict[i].keys, c.et)
                  /\ \A i \in 1..Len(hc_in.kwargs_dict) :
                        Keyed(hc_in.kwargs_dict[i].keys, c.et) ) =>
                    ArgumentsInPlace(c)

====
